---- MODULE Spec2Model ----
(***************************************************************************)
(* A model of the WebGL fluid simulation: the framebuffer pool of          *)
(* FluidRenderer (createFBO / createDoubleFBO / resizeFBO /                *)
(* resizeDoubleFBO), the per-frame pipeline (update, step, render), the    *)
(* splat, bloom and sunrays managers, and the two requestAnimationFrame    *)
(* loops (FluidRenderer.update and PointerManager.animate).                *)
(*                                                                         *)
(* Render targets live in a heap; a reference to a target is its index in  *)
(* the heap.  Every GPU pass (a blit with a program bound and textures     *)
(* attached) and every swap() is appended to `log`, which holds the events *)
(* of the handler that ran last.                                           *)
(***************************************************************************)
EXTENDS Integers, Sequences, FiniteSets, TLC

VARIABLES
    phase,              \* "new" | "running" | "destroyed"
    config,             \* FluidRenderer.config
    devicePixelRatio,   \* window.devicePixelRatio
    client,             \* <<canvas.clientWidth, canvas.clientHeight>>
    canvas,             \* <<canvas.width, canvas.height>>
    world,              \* heap of render targets, the renderer's FBO fields, bloomManager's module state, event log, context lost or not
    animationFrameId,   \* FluidRenderer.animationFrameId
    pmAnimationFrameId, \* PointerManager.animationFrameId
    scheduled,          \* callbacks registered with requestAnimationFrame for the next frame
    frameQueue,         \* callbacks of the animation frame being run
    lastOp,             \* the handler that ran last
    fb,                 \* the double buffer exercised by SpecFBO
    pm,                 \* the mouse pointer and the splats requested for it, exercised by SpecPointer
    colorState,         \* colorManager's module state and the configuration that names the scheme
    clock,              \* Date.now(), FluidRenderer.lastUpdateTime and the dt of the last calcDeltaTime
    osc,                \* pointerManager.ts: the oscillators, their pointers and the splats of the last tick
    ctx,                \* the canvas's WebGL capability and what mounting the component on it has done
    sh,                 \* the shader compiler of the driver and the shaders compiled on it
    mat,                \* the display Material: its program cache and its active program
    duo,                \* two renderers on one page and the module state they share
    reso,               \* the last getResolution call: its arguments and its result
    sp,                 \* a renderer that is given splats: its targets and the radius of the last splat
    chain,              \* the last initBloomFramebuffers call: its arguments and the mip chain
    pal,                \* colorManager's palette and the colors handed to splats
    tick,               \* a PointerManager whose oscillators are anywhere in the plane
    rst                 \* one DuffingOscillator, updated and reset

\* the state of the renderer and of its two animation loops
rendererVars == <<phase, config, devicePixelRatio, client, canvas, world, animationFrameId,
                  pmAnimationFrameId, scheduled, frameQueue, lastOp>>

\* the state of the components that are exercised on their own
otherVars == <<pm, osc, clock, colorState, ctx, sh, mat, duo, reso,
               sp, chain, pal, tick, rst>>

vars == <<rendererVars, fb, otherVars>>

----------------------------------------------------------------------------
(* Bounds *)

NumOscillators == 2
MaxFBOOps == 4
MaxPointerEvents == 4
MaxTicks == 3
MaxClockSteps == 4
MaxColorCalls == 2
MaxMounts == 2
MaxContextFrames == 2
MaxBroken == 1
MaxShaderCalls == 2
MaxSetKeywords == 3
MaxDuoOps == 3
MaxSplats == 2
MaxChainIterations == 3
MaxPaletteOps == 4
MaxMultipleSplats == 1
MaxResetOps == 4

(* Inputs *)

ClientSizes == {<<800, 600>>, <<600, 800>>, <<600, 600>>}
PressureIterationValues == {0, 1}
BloomIterationValues == {0, 1, 2}
PixelRatios == {1, 2}
FBOSizes == {<<4, 2>>, <<2, 4>>, <<2, 2>>}
MouseOffsets == {<<0, 0>>, <<1, 0>>, <<0, 1>>}
PointerColors == {"c1", "c2"}
PointerCode == {"script", "PointerManager"}
ElapsedMs == {0, 16, 100}
ClockSteps == {-16, 0, 16, 17, 100}
BufferSides == {512, 600, 768, 773, 800, 1024, 1497}
BaseSides == {1, 2, 5, 8, 9, 256}

(* Configuration defaults of the FluidRenderer constructor *)

SIM_RESOLUTION == 512
DYE_RESOLUTION == 1024
BLOOM_RESOLUTION == 256
SUNRAYS_RESOLUTION == 256
DEFAULT_PRESSURE_ITERATIONS == 20
DEFAULT_BLOOM_ITERATIONS == 10

----------------------------------------------------------------------------
(* Render targets *)

NoFBO == 0

Cleared == "clear"

Undefined ==
    [width |-> 0, height |-> 0, texelSizeX |-> <<0, 0>>, texelSizeY |-> <<0, 0>>,
     read |-> NoFBO, write |-> NoFBO, fbo1 |-> NoFBO, fbo2 |-> NoFBO]

DoubleNames == {"velocity", "pressure", "dye", "target"}

\* The(S) is the element of a one-element set.  An operator that uses the
\* renderer state it is given more than once is written
\* The({e(s) : s \in {s0}}): s0 is evaluated once, and e refers to its value.
The(S) == CHOOSE x \in S : TRUE

\* the events a handler appends to the log
Event(s, kind, name, reads, write, rroles, wrole, buf, read) ==
    [kind |-> kind, stage |-> s.stage, name |-> name, reads |-> reads, write |-> write,
     rroles |-> rroles, wrole |-> wrole, buf |-> buf, read |-> read]

\* createFBO: allocate a target of w x h and clear it; the new reference is
\* Len(heap) of the result.  1/w and 1/h are kept as <<numerator, denominator>>.
createFBO(s0, w, h) ==
    The({[s EXCEPT !.heap = Append(@, [width |-> w, height |-> h,
                                       texelSizeX |-> <<1, w>>, texelSizeY |-> <<1, h>>,
                                       content |-> Cleared]),
                   !.log = Append(@, Event(s, "alloc", "createFBO", {}, Len(s.heap) + 1,
                                           {}, "none", "none", NoFBO))] : s \in {s0}})

\* the fields of the renderer (and of bloomManager) that refer to target t now
RolesOf(s, t) ==
    IF t = NoFBO THEN {"screen"}
    ELSE UNION {IF s[b].read = t THEN {b \o ".read"} ELSE {} : b \in DoubleNames}
         \cup UNION {IF s[b].write = t THEN {b \o ".write"} ELSE {} : b \in DoubleNames}
         \cup {f \in {"curl", "divergence", "bloom", "sunrays", "sunraysTemp"} : s[f] = t}
         \cup (IF \E i \in 1..Len(s.bloomFramebuffers) : s.bloomFramebuffers[i] = t
               THEN {"bloomFramebuffers"} ELSE {})

RoleOf(s, t) ==
    IF RolesOf(s, t) = {} THEN "none" ELSE CHOOSE r \in RolesOf(s, t) : TRUE

\* the double buffer whose write side a pass wrote, "none" for any other target
WriteSide(ev) ==
    IF ev.kind = "pass" /\ \E b \in DoubleNames : ev.wrole = b \o ".write"
    THEN CHOOSE b \in DoubleNames : ev.wrole = b \o ".write"
    ELSE "none"

\* blit(target): one full-screen pass of the bound program `name`, sampling
\* the attached textures `reads`, into target (NoFBO is the screen); a lost
\* context ignores the draw call, and without the vertex and index buffers
\* that destroy() deleted drawElements is an INVALID_OPERATION that draws
\* nothing
blit(s0, name, reads, target) ==
    The({IF s.lost \/ ~s.buffers THEN s
         ELSE
         [s EXCEPT !.log = Append(@, Event(s, "pass", name, reads, target,
                                           UNION {RolesOf(s, t) : t \in reads},
                                           RoleOf(s, target), "none", NoFBO)),
                   !.heap = IF target = NoFBO THEN @
                            ELSE [@ EXCEPT ![target].content = name]] : s \in {s0}})

\* createDoubleFBO: two targets; fbo1/fbo2 are the closure variables that
\* swap() exchanges, read/write the object's data properties
createDoubleFBO(s0, w, h) ==
    The({LET fbo1 == Len(s2.heap) - 1
             fbo2 == Len(s2.heap)
         IN [s |-> s2,
             d |-> [width |-> w, height |-> h,
                    texelSizeX |-> s2.heap[fbo1].texelSizeX,
                    texelSizeY |-> s2.heap[fbo1].texelSizeY,
                    read |-> fbo1, write |-> fbo2, fbo1 |-> fbo1, fbo2 |-> fbo2]]
         : s2 \in {createFBO(createFBO(s0, w, h), w, h)}})

\* this.<b> = createDoubleFBO(w, h)
newDoubleFBO(s0, b, w, h) ==
    The({[c.s EXCEPT ![b] = c.d] : c \in {createDoubleFBO(s0, w, h)}})

\* a swap() that forgets to republish the write side
swapKeepsWrite(d) ==
    [d EXCEPT !.fbo1 = d.fbo2, !.fbo2 = d.fbo1, !.read = d.fbo2]

\* DoubleFBO.swap(): exchanges the closure variables, then republishes them
swap(d) ==
    [d EXCEPT !.fbo1 = d.fbo2, !.fbo2 = d.fbo1, !.read = d.fbo2, !.write = d.fbo1]

\* b.swap() on the double buffer held in field b
swapBuffer(s0, b) ==
    The({LET d == swap(s[b])
         IN [s EXCEPT ![b] = d,
                      !.log = Append(@, Event(s, "swap", "swap", {}, d.write, {}, "none", b, d.read))]
         : s \in {s0}})

\* resizeFBO: a new target of w x h, filled by a copy pass from the old one;
\* the new reference is Len(heap) of the result
resizeFBO(s0, target, w, h) ==
    The({blit(s1, "copy", {target}, Len(s1.heap)) : s1 \in {createFBO(s0, w, h)}})

\* a resizeDoubleFBO that reuses the resampled target for both sides
resizeDoubleFBOShared(s0, b, w, h) ==
    The({IF s[b].width = w /\ s[b].height = h THEN s
         ELSE The({[s1 EXCEPT ![b] = [@ EXCEPT !.read = Len(s1.heap), !.write = Len(s1.heap),
                                               !.width = w, !.height = h,
                                               !.texelSizeX = <<1, w>>, !.texelSizeY = <<1, h>>],
                              !.log = Append(@, Event(s, "resize", "resizeDoubleFBO", {s[b].read},
                                                      Len(s1.heap), {}, "none", b, Len(s1.heap)))]
                   : s1 \in {resizeFBO(s, s[b].read, w, h)}})
         : s \in {s0}})

\* resizeDoubleFBO: assigns target.read / target.write / width / height;
\* the closure variables fbo1/fbo2 of the buffer are not touched.  The
\* "resize" event names the old read side (reads), the new read side (read)
\* and the new write side (write).
resizeDoubleFBO(s0, b, w, h) ==
    The({IF s[b].width = w /\ s[b].height = h THEN s
         ELSE The({LET rd == Len(s2.heap) - 1
                       wr == Len(s2.heap)
                   IN [s2 EXCEPT ![b] = [@ EXCEPT !.read = rd, !.write = wr,
                                                  !.width = w, !.height = h,
                                                  !.texelSizeX = <<1, w>>, !.texelSizeY = <<1, h>>],
                                 !.log = Append(@, Event(s, "resize", "resizeDoubleFBO", {s[b].read},
                                                         wr, {}, "none", b, rd))]
                   : s2 \in {createFBO(resizeFBO(s, s[b].read, w, h), w, h)}})
         : s \in {s0}})

----------------------------------------------------------------------------
(* Resolutions *)

\* Math.round(a / b) for positive integers
Round(a, b) == (2 * a + b) \div (2 * b)

\* scaleByPixelRatio: Math.floor(input * pixelRatio); the ratios used here are
\* whole numbers, so the product is its own floor
scaleByPixelRatio(input, pixelRatio) == input * pixelRatio

\* the number of bits of the significand of a double
MantissaBits == 53

RECURSIVE Log2Floor(_, _)
\* the largest e with W * 2^e <= H, for 0 < W <= H
Log2Floor(H, W) == IF 2 * W > H THEN 0 ELSE 1 + Log2Floor(H, 2 * W)

RECURSIVE DoubleMod(_, _, _)
\* rem * 2^n mod H: the remainder of the long division of W by H after n bits
DoubleMod(rem, H, n) == IF n = 0 THEN rem ELSE DoubleMod((2 * rem) % H, H, n - 1)

\* aspectRatio = 1.0 / aspectRatio for W < H, when H / W is itself a double:
\* W / H is rounded to a double first, and its inverse is rounded again.  The
\* result is the double below H / W exactly when W / H was rounded up by more
\* than the inverse takes back.
InverseRoundsBelow(W, H) ==
    LET e == Log2Floor(H, W)
        rem == DoubleMod(W, H, MantissaBits + e)
    IN /\ W * (2 ^ e) # H
       /\ 2 * rem > H
       /\ (H - rem) * H > (4 ^ e) * W * W

\* getResolution: the shorter screen side gets `resolution`, the longer one
\* Math.round(resolution * aspectRatio); W, H are the drawing buffer's size and
\* resolution is a power of two, so that the product is exact.  The product
\* is half-way between two integers only if H / W is a double; it is then
\* rounded up unless the aspect ratio came out one step too small.
getResolution(resolution, W, H) ==
    LET long == IF W > H THEN W ELSE H
        short == IF W > H THEN H ELSE W
        min == resolution
        tie == (2 * resolution * long) % short = 0
               /\ ((2 * resolution * long) \div short) % 2 = 1
        max == IF W < H /\ tie /\ InverseRoundsBelow(W, H)
               THEN Round(resolution * long, short) - 1
               ELSE Round(resolution * long, short)
    IN IF W > H THEN [width |-> max, height |-> min]
       ELSE [width |-> min, height |-> max]

\* x >> n for 0 <= x < 2^31 and 0 <= n < 32
ShiftRight(x, n) == x \div (2 ^ n)

----------------------------------------------------------------------------
(* Calls.  A function that makes its calls one after the other is modelled  *)
(* by the list of these calls; Run makes them in order on the renderer      *)
(* state.  A call is a record: its operator and its arguments.              *)

Call(op, a) == [op |-> op, a |-> a]

RECURSIVE Run(_, _)

----------------------------------------------------------------------------
(* bloomManager / sunraysManager: framebuffers *)

\* bloomFramebuffers.push(createFBO(w, h))
pushBloomFramebuffer(s0, w, h) ==
    The({[s EXCEPT !.bloomFramebuffers = Append(@, Len(s.heap))] : s \in {createFBO(s0, w, h)}})

\* a mip-chain loop that never breaks
MipLevelsNoBreak(res, iterations) == iterations

\* the number of targets the mip-chain loop of initBloomFramebuffers creates:
\* it runs for i = 0 .. iterations - 1 and breaks at the first level that is
\* narrower or lower than 2
MipLevels(res, iterations) ==
    Cardinality({i \in 0..(iterations - 1) :
                    \A j \in 0..i : ~(ShiftRight(res.width, j + 1) < 2
                                      \/ ShiftRight(res.height, j + 1) < 2)})

\* the loop of initBloomFramebuffers on the base resolution res
mipChain(res, iterations) ==
    [k \in 1..MipLevels(res, iterations) |->
        Call("pushBloomFramebuffer", <<ShiftRight(res.width, k), ShiftRight(res.height, k)>>)]

\* initBloomFramebuffers on the base resolution res: a main bloom target
\* (dropped), then the mip chain kept in the module variable bloomFramebuffers
bloomFramebuffersOf(res, iterations) ==
    <<Call("createFBO", <<res.width, res.height>>), Call("resetBloomFramebuffers", <<>>)>>
    \o mipChain(res, iterations)

\* initBloomFramebuffers: the base resolution is getResolution(BLOOM_RESOLUTION)
initBloomFramebuffers(cfg, W, H) ==
    bloomFramebuffersOf(getResolution(BLOOM_RESOLUTION, W, H), cfg.BLOOM_ITERATIONS)

\* this.<field> = createFBO(w, h)
newFBO(s0, field, w, h) ==
    The({[s EXCEPT ![field] = Len(s.heap)] : s \in {createFBO(s0, w, h)}})

\* initSunraysFramebuffers: the sunrays target and its blur scratch target
initSunraysFramebuffers(W, H) ==
    LET res == getResolution(SUNRAYS_RESOLUTION, W, H)
    IN <<Call("newFBO", <<"sunrays", res.width, res.height>>),
         Call("newFBO", <<"sunraysTemp", res.width, res.height>>)>>

\* if (!this.<b>) this.<b> = createDoubleFBO(w, h) else resizeDoubleFBO(this.<b>, w, h)
initDoubleFBO(s0, b, w, h) ==
    The({IF s[b] = Undefined THEN newDoubleFBO(s, b, w, h)
         ELSE resizeDoubleFBO(s, b, w, h) : s \in {s0}})

\* FluidRenderer.initFramebuffers: dye and velocity are created once and
\* resized afterwards; divergence, curl, pressure, bloom and the bloom and
\* sunrays chains are allocated anew on every call
initFramebuffers(cfg, W, H) ==
    LET simRes == getResolution(SIM_RESOLUTION, W, H)
        dyeRes == getResolution(DYE_RESOLUTION, W, H)
    IN <<Call("enter", "initFramebuffers"),
         Call("initDoubleFBO", <<"dye", dyeRes.width, dyeRes.height>>),
         Call("initDoubleFBO", <<"velocity", simRes.width, simRes.height>>),
         Call("newFBO", <<"divergence", simRes.width, simRes.height>>),
         Call("newFBO", <<"curl", simRes.width, simRes.height>>),
         Call("newDoubleFBO", <<"pressure", simRes.width, simRes.height>>),
         Call("newFBO", <<"bloom", simRes.width, simRes.height>>)>>
       \o initBloomFramebuffers(cfg, W, H)
       \o initSunraysFramebuffers(W, H)

----------------------------------------------------------------------------
(* physicsManager / splatManager: the solver stages *)

\* applyCurl: velocity.read -> curl
applyCurl(s0) ==
    The({blit(s, "curl", {s.velocity.read}, s.curl) : s \in {s0}})

\* an applyVorticity that leaves out velocity.swap()
applyVorticityNoSwap(s0) ==
    The({blit(s, "vorticity", {s.velocity.read, s.curl}, s.velocity.write) : s \in {s0}})

\* applyVorticity: velocity.read, curl -> velocity.write; swap
applyVorticity(s0) ==
    The({swapBuffer(blit(s, "vorticity", {s.velocity.read, s.curl}, s.velocity.write),
                    "velocity") : s \in {s0}})

\* applyDivergence: velocity.read -> divergence
applyDivergence(s0) ==
    The({blit(s, "divergence", {s.velocity.read}, s.divergence) : s \in {s0}})

\* the clear pass of step: pressure.read * PRESSURE -> pressure.write; swap
clearPressure(s0) ==
    The({swapBuffer(blit(s, "clear", {s.pressure.read}, s.pressure.write), "pressure")
         : s \in {s0}})

\* one iteration of the Jacobi loop of applyPressure:
\* divergence, pressure.read -> pressure.write; swap
PressureIteration(s0) ==
    The({swapBuffer(blit(s, "pressure", {s.divergence, s.pressure.read}, s.pressure.write),
                    "pressure") : s \in {s0}})

\* an applyPressure that runs one Jacobi pass too many
applyPressureOneMore(cfg) ==
    [i \in 1..(cfg.PRESSURE_ITERATIONS + 1) |-> Call("PressureIteration", <<>>)]

\* applyPressure: PRESSURE_ITERATIONS Jacobi passes
applyPressure(cfg) ==
    [i \in 1..cfg.PRESSURE_ITERATIONS |-> Call("PressureIteration", <<>>)]

\* applyGradientSubtract: pressure.read, velocity.read -> velocity.write; swap
applyGradientSubtract(s0) ==
    The({swapBuffer(blit(s, "gradientSubtract", {s.pressure.read, s.velocity.read},
                         s.velocity.write), "velocity") : s \in {s0}})

\* an applyAdvection that renders into the side it samples
applyAdvectionInPlace(s0, source) ==
    The({swapBuffer(blit(s, "advection", {s.velocity.read, s[source].read}, s[source].read),
                    source) : s \in {s0}})

\* applyAdvection(velocity, source): velocity.read, source.read -> source.write; swap
applyAdvection(s0, source) ==
    The({swapBuffer(blit(s, "advection", {s.velocity.read, s[source].read}, s[source].write),
                    source) : s \in {s0}})

\* a step that computes the divergence before the vorticity force is applied
stepDivergenceFirst(cfg) ==
    <<Call("enter", "step"),
      Call("applyCurl", <<>>),
      Call("applyDivergence", <<>>),
      Call("applyVorticity", <<>>),
      Call("clearPressure", <<>>)>>
    \o applyPressure(cfg)
    \o <<Call("applyGradientSubtract", <<>>),
         Call("applyAdvection", "velocity"),
         Call("applyAdvection", "dye")>>

\* FluidRenderer.step
step(cfg) ==
    <<Call("enter", "step"),
      Call("applyCurl", <<>>),
      Call("applyVorticity", <<>>),
      Call("applyDivergence", <<>>),
      Call("clearPressure", <<>>)>>
    \o applyPressure(cfg)
    \o <<Call("applyGradientSubtract", <<>>),
         Call("applyAdvection", "velocity"),
         Call("applyAdvection", "dye")>>

\* one splat pass of applySplat: target.read -> target.write; swap
splatInto(s0, b) ==
    The({swapBuffer(blit(s, "splat", {s[b].read}, s[b].write), b) : s \in {s0}})

\* applySplat: the splat pass into velocity, swap, the splat pass into dye, swap
applySplat(s0) == splatInto(splatInto(s0, "velocity"), "dye")

\* FluidRenderer.handleSplat -> handlePointerSplat -> applySplat
handleSplat(s0) == applySplat([s0 EXCEPT !.stage = "splat"])

----------------------------------------------------------------------------
(* bloomManager / sunraysManager: post-processing *)

\* the passes of applyBloom over the mip chain bf: the prefilter into
\* destination, blur-and-downscale along the chain (last -> bf[i]), upscale-
\* and-blend back (last -> bf[i]), the final composite into destination
BloomPasses(bf, source, destination) ==
    LET n == Len(bf)
    IN <<Call("blit", <<"bloomPrefilter", {source}, destination>>)>>
       \o [i \in 1..n |->
             Call("blit", <<"bloomBlur", {IF i = 1 THEN destination ELSE bf[i - 1]}, bf[i]>>)]
       \o [k \in 1..(n - 1) |-> Call("blit", <<"bloomBlur", {bf[n - k + 1]}, bf[n - k]>>)]
       \o <<Call("blit", <<"bloomFinal", {bf[1]}, destination>>)>>

\* applyBloom(source, destination): nothing with fewer than 2 mip levels
applyBloom(s0, source, destination) ==
    The({IF Len(s.bloomFramebuffers) < 2 THEN s
         ELSE Run(s, BloomPasses(s.bloomFramebuffers, source, destination))
         : s \in {s0}})

\* applySunrays(source, mask, destination): source -> mask, mask -> destination
applySunrays(s0, source, mask, destination) ==
    blit(blit(s0, "sunraysMask", {source}, mask), "sunrays", {mask}, destination)

\* applySunraysBlur(target, temp, 1): target -> temp, temp -> target
applySunraysBlur(s0, target, temp) ==
    blit(blit(s0, "blur", {target}, temp), "blur", {temp}, target)

\* drawColor, then drawDisplay: both draw to the screen
drawDisplay(s0) ==
    The({blit(blit(s, "color", {}, NoFBO), "display", {s.dye.read, s.bloom, s.sunrays}, NoFBO)
         : s \in {s0}})

\* FluidRenderer.render(null): applyBloom(dye.read, bloom),
\* applySunrays(dye.read, dye.write, sunrays), applySunraysBlur(sunrays,
\* sunraysTemp, 1), drawColor and drawDisplay
render ==
    <<Call("enter", "render"),
      Call("applyBloom", <<>>),
      Call("applySunrays", <<>>),
      Call("applySunraysBlur", <<>>),
      Call("drawDisplay", <<>>)>>

----------------------------------------------------------------------------
(* Configuration *)

ConfigKeys == {"PRESSURE_ITERATIONS", "BLOOM_ITERATIONS"}

ConfigValues(k) ==
    IF k = "PRESSURE_ITERATIONS" THEN PressureIterationValues ELSE BloomIterationValues

\* the Partial<Config> objects handed to the constructor and to updateConfig
PartialConfigs ==
    UNION {{p \in [K -> PressureIterationValues \cup BloomIterationValues] :
                \A k \in K : p[k] \in ConfigValues(k)} : K \in SUBSET ConfigKeys}

\* the defaults of the FluidRenderer constructor
DefaultConfig ==
    [PRESSURE_ITERATIONS |-> DEFAULT_PRESSURE_ITERATIONS,
     BLOOM_ITERATIONS |-> DEFAULT_BLOOM_ITERATIONS]

\* { ...config, ...newConfig }
MergeConfig(cfg, newConfig) ==
    [k \in DOMAIN cfg \cup DOMAIN newConfig |->
        IF k \in DOMAIN newConfig THEN newConfig[k] ELSE cfg[k]]

----------------------------------------------------------------------------
(* Garbage collection.  A render target that nothing references any more is *)
(* dropped, and the remaining references are renumbered in a fixed order,   *)
(* so that two states that differ only in the addresses of their targets   *)
(* are one state.                                                          *)

DoubleRefs(d) == <<d.fbo1, d.fbo2, d.read, d.write>>

\* the targets a log refers to
LogRefs(log) ==
    UNION {log[i].reads \cup {log[i].write, log[i].read} : i \in 1..Len(log)}

\* the numbers of S in increasing order
SetToSeq(S0) ==
    The({[i \in 1..Cardinality(S) |-> CHOOSE x \in S : Cardinality({y \in S : y < x}) = i - 1]
         : S \in {S0}})

RECURSIVE DistinctFrom(_, _, _)
\* acc, then the references of refs from place i on that are neither NoFBO
\* nor in acc nor repeated, each kept where it comes first
DistinctFrom(refs0, i, acc0) ==
    The({IF i > Len(refs) THEN acc
         ELSE DistinctFrom(refs, i + 1,
                           IF refs[i] = NoFBO \/ \E j \in 1..Len(acc) : acc[j] = refs[i]
                           THEN acc
                           ELSE Append(acc, refs[i]))
         : refs \in {refs0}, acc \in {acc0}})

\* refs without NoFBO and without repetitions, each kept where it comes first
Distinct(refs0) == DistinctFrom(refs0, 1, <<>>)

\* the live targets of s: the rooted ones in the order of the roots, then
\* the ones only the log names, by age
Live(s) ==
    LET roots == DoubleRefs(s.dye) \o DoubleRefs(s.velocity) \o DoubleRefs(s.pressure)
                     \o <<s.curl, s.divergence, s.bloom, s.sunrays, s.sunraysTemp>>
                     \o s.bloomFramebuffers
        rooted == {roots[i] : i \in 1..Len(roots)}
    IN Distinct(roots \o SetToSeq(LogRefs(s.log) \ rooted))

\* the targets of s renumbered by their place in live
Renumber(s, live) ==
    LET To(t) == IF t = NoFBO THEN NoFBO ELSE CHOOSE i \in 1..Len(live) : live[i] = t
        ToDouble(d) == [d EXCEPT !.read = To(d.read), !.write = To(d.write),
                                 !.fbo1 = To(d.fbo1), !.fbo2 = To(d.fbo2)]
    IN [s EXCEPT !.heap = [i \in 1..Len(live) |-> s.heap[live[i]]],
                 !.dye = ToDouble(s.dye),
                 !.velocity = ToDouble(s.velocity),
                 !.pressure = ToDouble(s.pressure),
                 !.curl = To(s.curl), !.divergence = To(s.divergence),
                 !.bloom = To(s.bloom), !.sunrays = To(s.sunrays),
                 !.sunraysTemp = To(s.sunraysTemp),
                 !.bloomFramebuffers =
                     [i \in 1..Len(s.bloomFramebuffers) |-> To(s.bloomFramebuffers[i])],
                 !.log = [i \in 1..Len(s.log) |->
                            [s.log[i] EXCEPT !.reads = {To(t) : t \in s.log[i].reads},
                                             !.write = To(s.log[i].write),
                                             !.read = To(s.log[i].read)]]]

Collect(s0) ==
    The({The({IF live = [i \in 1..Len(s.heap) |-> i] THEN s ELSE Renumber(s, live)
              : live \in {Live(s)}}) : s \in {s0}})

----------------------------------------------------------------------------
(* The mouse pointer.  Two versions of the pointer code are in the
   repository: the functions of script.ts and the class PointerManager that
   takes an onSplatCallback.  pm.code names the one in use; pm.splats lists
   the splats requested so far, each with the serial number of the mousemove
   event whose data it carries, where it was requested ("move": inside the
   mousemove handler, "frame": by applyInputs) and whether the pointer was
   down then.  A coordinate is <<numerator, denominator>>. *)

NoPointers == [code |-> "none", n |-> 0, moves |-> 0, frames |-> 0, splats |-> <<>>]

\* new PointerPrototype() / createPointer()
createPointer(color) ==
    [id |-> -1, texcoordX |-> <<0, 1>>, texcoordY |-> <<0, 1>>,
     prevTexcoordX |-> <<0, 1>>, prevTexcoordY |-> <<0, 1>>,
     deltaX |-> <<0, 1>>, deltaY |-> <<0, 1>>, down |-> FALSE, moved |-> FALSE, color |-> color]

\* correctDeltaX: multiplied by width / height when that is below 1
correctDeltaX(num, W, H) == IF W < H THEN <<num, H>> ELSE <<num, W>>

\* correctDeltaY: divided by width / height when that is above 1
correctDeltaY(num, W, H) == IF W > H THEN <<num, W>> ELSE <<num, H>>

updatePointerDownData(pointer, id, posX, posY, color, W, H) ==
    [pointer EXCEPT !.id = id, !.down = TRUE, !.moved = FALSE,
                    !.texcoordX = <<posX, W>>, !.texcoordY = <<H - posY, H>>,
                    !.prevTexcoordX = <<posX, W>>, !.prevTexcoordY = <<H - posY, H>>,
                    !.deltaX = <<0, 1>>, !.deltaY = <<0, 1>>, !.color = color]

\* the fields updatePointerMoveData assigns; texcoordX - prevTexcoordX is
\* (posX - previous posX) / W
updatePointerMoveData(pointer, posX, posY, W, H) ==
    LET dx == IF pointer.texcoordX[2] = W THEN posX - pointer.texcoordX[1] ELSE posX
        dy == IF pointer.texcoordY[2] = H THEN (H - posY) - pointer.texcoordY[1] ELSE H - posY
    IN [pointer EXCEPT !.prevTexcoordX = pointer.texcoordX, !.prevTexcoordY = pointer.texcoordY,
                       !.texcoordX = <<posX, W>>, !.texcoordY = <<H - posY, H>>,
                       !.deltaX = correctDeltaX(dx, W, H), !.deltaY = correctDeltaY(dy, W, H),
                       !.moved = (dx # 0 \/ dy # 0)]

updatePointerUpData(pointer) == [pointer EXCEPT !.down = FALSE]

\* the splat requested for the pointer as it is now
SplatRequest(p0, at) ==
    The({[move |-> p.moves, at |-> at, frame |-> p.frames, down |-> p.pointer.down,
          texcoordX |-> p.pointer.texcoordX, texcoordY |-> p.pointer.texcoordY,
          deltaX |-> p.pointer.deltaX, deltaY |-> p.pointer.deltaY,
          color |-> p.pointer.color] : p \in {p0}})

onSplatCallback(p0, at) ==
    The({[p EXCEPT !.splats = Append(@, SplatRequest(p, at))] : p \in {p0}})

\* PointerManager.generateSplat(posX, posY, color): a pointer of its own is
\* created, put down at the scaled position (updatePointerDownData replaces
\* the color argument by a new getColorCallback() color) and moved by one
\* pixel each way, which requests the splat; the pointer list is not touched
pointerGenerateSplat(p0, posX, posY, color, pixelRatio, W, H) ==
    The({[onSplatCallback([p EXCEPT !.pointer = q], "generateSplat") EXCEPT !.pointer = p.pointer]
         : q \in {updatePointerMoveData(
                      updatePointerDownData(createPointer(color), -2,
                                            scaleByPixelRatio(posX, pixelRatio),
                                            scaleByPixelRatio(posY, pixelRatio), color, W, H),
                      scaleByPixelRatio(posX, pixelRatio) + 1,
                      scaleByPixelRatio(posY, pixelRatio) + 1, W, H)},
           p \in {p0}})

\* applyInputs: every pointer with moved set has it cleared and is splatted
pointerApplyInputs(p0) ==
    The({IF p.pointer.moved
         THEN onSplatCallback([p EXCEPT !.pointer.moved = FALSE], "frame")
         ELSE p : p \in {p0}})

----------------------------------------------------------------------------
(* Numbers.  A number of the oscillator code is kept in fixed point, as a
   count of 1/Unit; products and quotients are truncated towards zero.  An
   angle that is a multiple of a twelfth of a turn has its cosine in
   CosTwelfth; the cosine and sine of the small angle omega * time are
   their Taylor polynomials of degree 2 and 3. *)

Unit == 10000

Abs(a) == IF a < 0 THEN -a ELSE a

Trunc(a, b) == IF (a < 0) = (b < 0) THEN Abs(a) \div Abs(b) ELSE -(Abs(a) \div Abs(b))

MulFix(a, b) == Trunc(a * b, Unit)

DivFix(a, b) == Trunc(a * Unit, b)

CosTwelfth == <<10000, 8660, 5000, 0, -5000, -8660, -10000, -8660, -5000, 0, 5000, 8660>>

\* Math.cos / Math.sin of k twelfths of a turn
cosTurn(k) == CosTwelfth[(k % 12) + 1]

sinTurn(k) == CosTwelfth[((k + 9) % 12) + 1]

\* Math.cos / Math.sin of a small angle
cosSmall(a) == Unit - Trunc(MulFix(a, a), 2)

sinSmall(a) == a - Trunc(MulFix(MulFix(a, a), a), 6)

\* Math.sqrt
RECURSIVE Newton(_, _)
Newton(v, r) ==
    The({IF q >= r THEN r ELSE Newton(v, q) : q \in {(r + v \div r) \div 2}})

Sqrt(v) == IF v <= 0 THEN 0 ELSE Newton(v, v)

Clamp01(a) == IF a < 0 THEN 0 ELSE IF a > Unit THEN Unit ELSE a

----------------------------------------------------------------------------
(* DuffingOscillator *)

DUFFING_DELTA == 2000
DUFFING_BETA == 800
DUFFING_ALPHA == 9000
DUFFING_GAMMA == 8000
DUFFING_OMEGA == 4000
OSC_RADIUS == 3000
OSC_SPEED == 500
OSC_MAX_DIST == 4000
OSC_CONTAINMENT == 2000
OSC_SCALE == 4000
OSC_RESET_RADIUS == 4000
MAX_DELTA_TIME == 166

\* new DuffingOscillator({..., index, total}); phaseOffset is kept as the
\* number of twelfths of a turn, which is whole for 1, 2, 3, 4, 6 and 12
\* oscillators
newDuffingOscillator(index, total) ==
    [x |-> 0, y |-> 0,
     dx |-> MulFix(cosTurn((12 * index) \div total + 3), OSC_SPEED),
     dy |-> MulFix(sinTurn((12 * index) \div total + 3), OSC_SPEED),
     time |-> 0, phaseOffset |-> (12 * index) \div total,
     baseX |-> MulFix(cosTurn((12 * index) \div total), OSC_RADIUS),
     baseY |-> MulFix(sinTurn((12 * index) \div total), OSC_RADIUS),
     index |-> index, totalOscillators |-> total]

\* DuffingOscillator.reset()
oscillatorReset(o) ==
    [o EXCEPT !.baseX = MulFix(cosTurn((12 * o.index) \div o.totalOscillators), OSC_RESET_RADIUS),
              !.baseY = MulFix(sinTurn((12 * o.index) \div o.totalOscillators), OSC_RESET_RADIUS),
              !.x = 0, !.y = 0,
              !.dx = MulFix(cosTurn((12 * o.index) \div o.totalOscillators + 3), OSC_SPEED),
              !.dy = MulFix(sinTurn((12 * o.index) \div o.totalOscillators + 3), OSC_SPEED),
              !.time = 0]

\* gamma * cos(omega * time + phaseOffset) and gamma * sin(...)
forcingX(o) ==
    The({MulFix(DUFFING_GAMMA, MulFix(cosSmall(a), cosTurn(o.phaseOffset))
                               - MulFix(sinSmall(a), sinTurn(o.phaseOffset)))
         : a \in {MulFix(DUFFING_OMEGA, o.time)}})

forcingY(o) ==
    The({MulFix(DUFFING_GAMMA, MulFix(sinSmall(a), cosTurn(o.phaseOffset))
                               + MulFix(cosSmall(a), sinTurn(o.phaseOffset)))
         : a \in {MulFix(DUFFING_OMEGA, o.time)}})

\* the Duffing step of the velocities
accelerate(o, dt) ==
    [o EXCEPT !.dx = @ + MulFix(forcingX(o) - MulFix(DUFFING_DELTA, o.dx) - MulFix(DUFFING_BETA, o.x)
                                  - MulFix(DUFFING_ALPHA, MulFix(MulFix(o.x, o.x), o.x)), dt),
              !.dy = @ + MulFix(forcingY(o) - MulFix(DUFFING_DELTA, o.dy) - MulFix(DUFFING_BETA, o.y)
                                  - MulFix(DUFFING_ALPHA, MulFix(MulFix(o.y, o.y), o.y)), dt)]

\* the containment force towards the base position, beyond maxDist
contain(o) ==
    LET dx == o.baseX - o.x
        dy == o.baseY - o.y
        dist == Sqrt(dx * dx + dy * dy)
    IN IF dist > OSC_MAX_DIST
       THEN [o EXCEPT !.dx = @ + MulFix(DivFix(dx, dist),
                                        DivFix(MulFix(OSC_CONTAINMENT, dist - OSC_MAX_DIST), OSC_MAX_DIST)),
                      !.dy = @ + MulFix(DivFix(dy, dist),
                                        DivFix(MulFix(OSC_CONTAINMENT, dist - OSC_MAX_DIST), OSC_MAX_DIST))]
       ELSE o

\* DuffingOscillator.update(dt): the oscillator after the call
oscillatorUpdate(o0, dt) ==
    The({[o EXCEPT !.x = @ + MulFix(o.dx, dt), !.y = @ + MulFix(o.dy, dt), !.time = @ + dt]
         : o \in {contain(accelerate(o0, dt))}})

\* the {x, y, dx, dy} that update returns, from the oscillator after the call
oscillatorOutput(o) ==
    [x |-> MulFix(o.x + o.baseX, OSC_SCALE), y |-> MulFix(o.y + o.baseY, OSC_SCALE),
     dx |-> MulFix(o.dx, OSC_SCALE), dy |-> MulFix(o.dy, OSC_SCALE)]

----------------------------------------------------------------------------
(* pointerManager.ts: one pointer per oscillator *)

NoOscillators ==
    [started |-> FALSE, oscillators |-> <<>>, pointers |-> <<>>, fixedColors |-> <<>>,
     ticks |-> 0, splats |-> <<>>, previous |-> <<>>]

\* createPointer(index)
createOscillatorPointer(color) ==
    [id |-> -1, texcoordX |-> Unit \div 2, texcoordY |-> Unit \div 2,
     prevTexcoordX |-> Unit \div 2, prevTexcoordY |-> Unit \div 2,
     deltaX |-> 0, deltaY |-> 0, down |-> TRUE, moved |-> FALSE, color |-> color]

\* correctDeltaX / correctDeltaY of pointerManager.ts
oscCorrectDeltaX(delta, W, H) == IF W < H THEN Trunc(delta * W, H) ELSE delta

oscCorrectDeltaY(delta, W, H) == IF W > H THEN Trunc(delta * H, W) ELSE delta

\* Math.min((currentTime - lastTime) / 1000, 0.016666), from milliseconds
deltaTime(elapsed) ==
    IF (elapsed * Unit) \div 1000 < MAX_DELTA_TIME THEN (elapsed * Unit) \div 1000 ELSE MAX_DELTA_TIME

\* the body without Math.min(Math.max(..., 0), 1)
movePointerNoClamp(pointer, out, W, H) ==
    [pointer EXCEPT !.prevTexcoordX = pointer.texcoordX, !.prevTexcoordY = pointer.texcoordY,
                    !.texcoordX = out.x + Unit \div 2,
                    !.texcoordY = out.y + Unit \div 2,
                    !.deltaX = oscCorrectDeltaX(Trunc(out.dx, 2), W, H),
                    !.deltaY = oscCorrectDeltaY(Trunc(out.dy, 2), W, H),
                    !.moved = TRUE]

\* the body of oscillators.forEach for one index: the pointer after it
movePointer(pointer, out, W, H) ==
    [pointer EXCEPT !.prevTexcoordX = pointer.texcoordX, !.prevTexcoordY = pointer.texcoordY,
                    !.texcoordX = Clamp01(out.x + Unit \div 2),
                    !.texcoordY = Clamp01(out.y + Unit \div 2),
                    !.deltaX = oscCorrectDeltaX(Trunc(out.dx, 2), W, H),
                    !.deltaY = oscCorrectDeltaY(Trunc(out.dy, 2), W, H),
                    !.moved = TRUE]

\* a splat request that takes the color of the first oscillator
oscillatorSplatFirstColor(index, pointer, fixedColors) ==
    [index |-> index, texcoordX |-> pointer.texcoordX, texcoordY |-> pointer.texcoordY,
     prevTexcoordX |-> pointer.prevTexcoordX, prevTexcoordY |-> pointer.prevTexcoordY,
     deltaX |-> pointer.deltaX, deltaY |-> pointer.deltaY, color |-> fixedColors[1]]

\* the SplatData handed to onSplatCallback for oscillator index
oscillatorSplat(index, pointer, fixedColors) ==
    [index |-> index, texcoordX |-> pointer.texcoordX, texcoordY |-> pointer.texcoordY,
     prevTexcoordX |-> pointer.prevTexcoordX, prevTexcoordY |-> pointer.prevTexcoordY,
     deltaX |-> pointer.deltaX, deltaY |-> pointer.deltaY, color |-> fixedColors[index]]

\* one iteration of oscillators.forEach((oscillator, index) => ...)
oscillatorTick(m0, index, dt, W, H) ==
    The({The({[m EXCEPT !.oscillators[index] = o,
                        !.pointers[index] = movePointer(@, oscillatorOutput(o), W, H),
                        !.splats = Append(@, oscillatorSplat(index,
                                                movePointer(m.pointers[index], oscillatorOutput(o), W, H),
                                                m.fixedColors))]
              : o \in {oscillatorUpdate(m.oscillators[index], dt)}})
         : m \in {m0}})

\* the animate callback: every oscillator in index order
RECURSIVE animateFrom(_, _, _, _, _)
animateFrom(m0, index, dt, W, H) ==
    IF index > Len(m0.oscillators) THEN m0
    ELSE The({animateFrom(m, index + 1, dt, W, H) : m \in {oscillatorTick(m0, index, dt, W, H)}})

oscAnimate(m0, dt, W, H) ==
    The({animateFrom([m EXCEPT !.previous = m.splats, !.splats = <<>>, !.ticks = @ + 1], 1, dt, W, H)
         : m \in {m0}})

----------------------------------------------------------------------------
(* calcDeltaTime.  Times are in milliseconds, dt in microseconds. *)

MAX_DT == 16666

\* the constructor sets lastUpdateTime = Date.now()
InitialClock == [now |-> 0, lastUpdateTime |-> 0, dt |-> 0, n |-> 0, last |-> "none"]

Min(a, b) == IF a < b THEN a ELSE b

\* a calcDeltaTime that returns the elapsed time as it is
calcDeltaTimeUnclamped(c) ==
    [c EXCEPT !.dt = (c.now - c.lastUpdateTime) * 1000, !.lastUpdateTime = c.now]

\* calcDeltaTime(): dt = (now - lastUpdateTime) / 1000 seconds,
\* lastUpdateTime = now, return Math.min(dt, 0.016666)
calcDeltaTime(c) ==
    [c EXCEPT !.dt = Min((c.now - c.lastUpdateTime) * 1000, MAX_DT), !.lastUpdateTime = c.now]

----------------------------------------------------------------------------
(* colorManager.  A gradient entry "hsl(240deg 100% 20%)" is kept as the
   three numbers parseHSLA takes from it; a color component is a fixed-point
   number in units of 1/Unit. *)

\* three of the schemes of colorConfigurations
colorConfigurations ==
    [default |-> <<<<240, 100, 20>>, <<281, 100, 21>>, <<304, 100, 23>>, <<319, 100, 30>>,
                   <<329, 100, 36>>, <<336, 100, 41>>, <<346, 83, 51>>, <<3, 95, 61>>,
                   <<17, 100, 59>>, <<30, 100, 55>>, <<40, 100, 50>>, <<48, 100, 50>>,
                   <<55, 100, 50>>>>,
     dusk |-> <<<<315, 20, 45>>, <<228, 31, 60>>, <<320, 100, 68>>, <<25, 65, 30>>>>,
     rosolane_to_helvetia |-> <<<<207, 70, 37>>, <<288, 37, 55>>>>]

\* properties every object literal inherits from Object.prototype: they are
\* there (and truthy) for colorConfigurations[name], and have no gradient
ObjectPrototypeKeys == {"constructor", "toString", "hasOwnProperty", "valueOf"}

\* the scheme names handed to setColorScheme and to COLOR_SCHEME
SchemeNames == {"dusk", "rosolane_to_helvetia", "nope", "", "constructor"}

\* hue2rgb(p, q, t): p and q in units of 1/Unit and t in degrees (the code's
\* t is this t / 360, so 1/6, 1/2 and 2/3 are 60, 180 and 240); the channel
\* is the nearest multiple of 1/Unit
hue2rgb(p, q, t0) ==
    LET t1 == IF t0 < 0 THEN t0 + 360 ELSE IF t0 > 360 THEN t0 - 360 ELSE t0
    IN IF t1 < 60 THEN p + Round((q - p) * t1, 60)
       ELSE IF t1 < 180 THEN q
       ELSE IF t1 < 240 THEN p + Round((q - p) * (240 - t1), 60)
       ELSE p

\* HSLAtoRGB of the parsed <<h, s, l>>: h in degrees, s and l in percent;
\* q and p are whole numbers of 1/Unit (Unit is 100 * 100)
HSLAtoRGB(hsl) ==
    LET h == hsl[1]
        s == hsl[2]
        l == hsl[3]
        q == IF l < 50 THEN l * (100 + s) ELSE 100 * l + 100 * s - l * s
        pp == 2 * 100 * l - q
    IN IF s = 0 THEN [r |-> 100 * l, g |-> 100 * l, b |-> 100 * l]
       ELSE [r |-> hue2rgb(pp, q, h + 120),
             g |-> hue2rgb(pp, q, h),
             b |-> hue2rgb(pp, q, h - 120)]

\* colorConfigurations[scheme].gradient.map(HSLAtoRGB)
gradientToRGB(scheme) ==
    [i \in 1..Len(colorConfigurations[scheme]) |-> HSLAtoRGB(colorConfigurations[scheme][i])]

\* let currentScheme = 'default'; let currentColors = []
InitialColor ==
    [currentScheme |-> "default", currentColors |-> <<>>, config |-> <<>>, n |-> 0,
     op |-> "none", scheme |-> "", threw |-> FALSE, warned |-> FALSE,
     partial |-> <<>>, before |-> <<>>]

\* setColorScheme(scheme): the fallback to 'default' is taken when
\* colorConfigurations[scheme] is falsy; currentScheme is assigned before
\* the gradient is read, which throws a TypeError when the entry found is
\* an inherited property
setColorScheme(c, scheme) ==
    LET unknown == scheme \notin DOMAIN colorConfigurations \cup ObjectPrototypeKeys
        name == IF unknown THEN "default" ELSE scheme
    IN IF name \in ObjectPrototypeKeys
       THEN [c EXCEPT !.currentScheme = name, !.threw = TRUE, !.warned = FALSE]
       ELSE [c EXCEPT !.currentScheme = name, !.currentColors = gradientToRGB(name),
                      !.threw = FALSE, !.warned = unknown]

\* getRandomColor(): selects the palette first when there is none
getRandomColor(c) ==
    IF c.currentColors = <<>> THEN setColorScheme(c, c.currentScheme)
    ELSE [c EXCEPT !.threw = FALSE, !.warned = FALSE]

\* the configuration of the constructor with its color scheme
ColorDefaultConfig == [BLOOM_ITERATIONS |-> DEFAULT_BLOOM_ITERATIONS, COLOR_SCHEME |-> "dusk"]

\* the Partial<Config> objects over BLOOM_ITERATIONS and COLOR_SCHEME
ColorPartialConfigs ==
    {<<>>} \cup {[BLOOM_ITERATIONS |-> b] : b \in {1, 2}}
           \cup {[COLOR_SCHEME |-> s] : s \in SchemeNames}
           \cup {[BLOOM_ITERATIONS |-> b, COLOR_SCHEME |-> s] : b \in {1, 2}, s \in SchemeNames}

HasKey(r, k) == r # <<>> /\ k \in DOMAIN r

\* an updateConfig that lets the old options win over the new ones
updateConfigKeepsOld(c, newConfig) ==
    LET merged == IF newConfig = <<>> THEN c.config ELSE MergeConfig(newConfig, c.config)
        c1 == [c EXCEPT !.config = merged, !.threw = FALSE, !.warned = FALSE]
    IN IF HasKey(newConfig, "COLOR_SCHEME") /\ newConfig.COLOR_SCHEME # ""
       THEN setColorScheme(c1, newConfig.COLOR_SCHEME)
       ELSE c1

\* updateConfig(newConfig): config = { ...config, ...newConfig }, then
\* initColorScheme(newConfig.COLOR_SCHEME) when that is truthy
updateConfig(c, newConfig) ==
    LET merged == IF newConfig = <<>> THEN c.config ELSE MergeConfig(c.config, newConfig)
        c1 == [c EXCEPT !.config = merged, !.threw = FALSE, !.warned = FALSE]
    IN IF HasKey(newConfig, "COLOR_SCHEME") /\ newConfig.COLOR_SCHEME # ""
       THEN setColorScheme(c1, newConfig.COLOR_SCHEME)
       ELSE c1

----------------------------------------------------------------------------
(* Frame loop *)

EmptyWorld ==
    [heap |-> <<>>, log |-> <<>>, stage |-> "none",
     dye |-> Undefined, velocity |-> Undefined, pressure |-> Undefined,
     curl |-> NoFBO, divergence |-> NoFBO, bloom |-> NoFBO,
     sunrays |-> NoFBO, sunraysTemp |-> NoFBO, bloomFramebuffers |-> <<>>,
     target |-> Undefined, lost |-> FALSE, buffers |-> TRUE]

\* resizeCanvas: the backing size the canvas should have
scaledClient(cl, pixelRatio) ==
    <<scaleByPixelRatio(cl[1], pixelRatio), scaleByPixelRatio(cl[2], pixelRatio)>>

\* resizeCanvas() returned true
resizeCanvas(s0) ==
    [s0 EXCEPT !.log = Append(@, [kind |-> "resizeCanvas", stage |-> "update",
                                  name |-> "resizeCanvas", reads |-> {}, write |-> NoFBO,
                                  rroles |-> {}, wrole |-> "none", buf |-> "none",
                                  read |-> NoFBO])]

\* applyInputs(): pointerManager.applyInputs(), which is a stub
applyInputs(s0) ==
    [s0 EXCEPT !.log = Append(@, [kind |-> "applyInputs", stage |-> "update",
                                  name |-> "applyInputs", reads |-> {}, write |-> NoFBO,
                                  rroles |-> {}, wrole |-> "none", buf |-> "none",
                                  read |-> NoFBO])]

\* an update that steps the simulation twice in one tick
updateStepsTwice(cfg, cv, cl, pixelRatio) ==
    LET want == scaledClient(cl, pixelRatio)
    IN (IF cv # want
        THEN <<Call("resizeCanvas", <<>>)>> \o initFramebuffers(cfg, want[1], want[2])
        ELSE <<>>)
       \o <<Call("applyInputs", <<>>)>>
       \o step(cfg)
       \o step(cfg)
       \o render

\* the body of FluidRenderer.update up to the requestAnimationFrame call:
\* resizeCanvas, initFramebuffers on a resize, applyInputs, step, render
update(cfg, cv, cl, pixelRatio) ==
    LET want == scaledClient(cl, pixelRatio)
    IN (IF cv # want
        THEN <<Call("resizeCanvas", <<>>)>> \o initFramebuffers(cfg, want[1], want[2])
        ELSE <<>>)
       \o <<Call("applyInputs", <<>>)>>
       \o step(cfg)
       \o render

\* the forEach of PointerManager.animate: one splat per oscillator
animate == [i \in 1..NumOscillators |-> Call("handleSplat", <<>>)]

\* PointerManager.generateSplat: one splat request
generateSplat == <<Call("handleSplat", <<>>)>>

\* one call made on the renderer state
Exec(s0, c) ==
    CASE c.op = "enter" -> [s0 EXCEPT !.stage = c.a]
      [] c.op = "resizeCanvas" -> resizeCanvas(s0)
      [] c.op = "applyInputs" -> applyInputs(s0)
      [] c.op = "createFBO" -> createFBO(s0, c.a[1], c.a[2])
      [] c.op = "newFBO" -> newFBO(s0, c.a[1], c.a[2], c.a[3])
      [] c.op = "newDoubleFBO" -> newDoubleFBO(s0, c.a[1], c.a[2], c.a[3])
      [] c.op = "initDoubleFBO" -> initDoubleFBO(s0, c.a[1], c.a[2], c.a[3])
      [] c.op = "resetBloomFramebuffers" -> [s0 EXCEPT !.bloomFramebuffers = <<>>]
      [] c.op = "pushBloomFramebuffer" -> pushBloomFramebuffer(s0, c.a[1], c.a[2])
      [] c.op = "applyCurl" -> applyCurl(s0)
      [] c.op = "applyVorticity" -> applyVorticity(s0)
      [] c.op = "applyDivergence" -> applyDivergence(s0)
      [] c.op = "clearPressure" -> clearPressure(s0)
      [] c.op = "PressureIteration" -> PressureIteration(s0)
      [] c.op = "applyGradientSubtract" -> applyGradientSubtract(s0)
      [] c.op = "applyAdvection" -> applyAdvection(s0, c.a)
      [] c.op = "handleSplat" -> handleSplat(s0)
      [] c.op = "blit" -> blit(s0, c.a[1], c.a[2], c.a[3])
      [] c.op = "applyBloom" -> The({applyBloom(s, s.dye.read, s.bloom) : s \in {s0}})
      [] c.op = "applySunrays" ->
             The({applySunrays(s, s.dye.read, s.dye.write, s.sunrays) : s \in {s0}})
      [] c.op = "applySunraysBlur" ->
             The({applySunraysBlur(s, s.sunrays, s.sunraysTemp) : s \in {s0}})
      [] c.op = "drawDisplay" -> drawDisplay(s0)

RECURSIVE RunRange(_, _, _, _)
\* the calls calls[lo..hi] made in order; the range is halved so that the
\* evaluation stays shallow
RunRange(s0, calls, lo, hi) ==
    The({IF lo > hi THEN s
         ELSE IF lo = hi THEN Exec(s, calls[lo])
         ELSE RunRange(RunRange(s, calls, lo, (lo + hi) \div 2),
                       calls, (lo + hi) \div 2 + 1, hi)
         : s \in {s0}})

\* the calls made in order, starting in state s0
Run(s0, calls0) ==
    The({RunRange(s0, calls, 1, Len(calls)) : calls \in {calls0}})

\* cancelAnimationFrame(id)
cancel(queue, id) == SelectSeq(queue, LAMBDA cb : cb # id)

(* The WebGL context.  What a canvas can give is a record: the API of the
   context getContext returns ("none" if it returns null for 'webgl2', 'webgl'
   and 'experimental-webgl'), whether getExtension('OES_texture_half_float')
   returns an object, and the internal formats for which a half-float texture
   attached to a framebuffer is FRAMEBUFFER_COMPLETE. *)

RenderFormats == {"R16F", "RG16F", "RGBA16F", "RGBA"}

Capabilities ==
    [api : {"none", "webgl1", "webgl2"}, halfFloat : BOOLEAN, formats : SUBSET RenderFormats]

\* supportRenderTextureFormat: creates a 4x4 texture and a framebuffer, attaches
\* the texture and tests the framebuffer status; neither object is deleted
supportRenderTextureFormat(gl, internalFormat) == internalFormat \in gl.formats

RECURSIVE getSupportedFormat(_, _)
\* getSupportedFormat: the format itself, or the next wider one (R16F, RG16F,
\* RGBA16F), or null; probes counts the framebuffers the tests created
getSupportedFormat(gl, internalFormat) ==
    IF supportRenderTextureFormat(gl, internalFormat)
    THEN [format |-> internalFormat, probes |-> 1]
    ELSE CASE internalFormat = "R16F" ->
                [getSupportedFormat(gl, "RG16F") EXCEPT !.probes = @ + 1]
           [] internalFormat = "RG16F" ->
                [getSupportedFormat(gl, "RGBA16F") EXCEPT !.probes = @ + 1]
           [] OTHER -> [format |-> "null", probes |-> 1]

\* a getWebGLContext that reports no error
getWebGLContextNeverThrows(gl) ==
    [error |-> "none", probes |-> 0]

\* getWebGLContext: the error it throws ("none" if it returns) and the number
\* of framebuffers its format tests created
getWebGLContext(gl) ==
    IF gl.api = "none" THEN [error |-> "WebGL not supported", probes |-> 0]
    ELSE IF gl.api = "webgl1" /\ ~gl.halfFloat
    THEN [error |-> "OES_texture_half_float not supported", probes |-> 0]
    ELSE LET isWebGL2 == gl.api = "webgl2"
             formatRGBA == getSupportedFormat(gl, IF isWebGL2 THEN "RGBA16F" ELSE "RGBA")
             formatRG == getSupportedFormat(gl, IF isWebGL2 THEN "RG16F" ELSE "RGBA")
             formatR == getSupportedFormat(gl, IF isWebGL2 THEN "R16F" ELSE "RGBA")
         IN [error |-> IF \/ formatRGBA.format = "null"
                          \/ formatRG.format = "null"
                          \/ formatR.format = "null"
                       THEN "Required texture formats not supported"
                       ELSE "none",
             probes |-> formatRGBA.probes + formatRG.probes + formatR.probes]

\* getWebGLContext on a canvas whose context was lost by loseContext():
\* getContext returns the lost context, on which getExtension returns null,
\* createTexture and createFramebuffer return null and checkFramebufferStatus
\* is not FRAMEBUFFER_COMPLETE
getWebGLContextLost(gl) ==
    IF gl.api = "webgl1"
    THEN [error |-> "OES_texture_half_float not supported", probes |-> 0]
    ELSE [error |-> "Required texture formats not supported", probes |-> 0]

\* the capability of a canvas that was never asked for a context
UnknownGL == [api |-> "unknown", halfFloat |-> FALSE, formats |-> {}]

\* the component before it is mounted
NoContext ==
    [gl |-> UnknownGL, mounted |-> FALSE, renderer |-> "null", cleanup |-> FALSE,
     error |-> "none", probes |-> 0, targets |-> 0, scheduled |-> <<>>, ticks |-> 0,
     mounts |-> 0, frames |-> 0, canvas |-> <<0, 0>>, lost |-> FALSE]

\* the number of render targets createFBO allocates in the constructor: in
\* initFramebuffers, and again in the initFramebuffers of the first update()
\* when resizeCanvas() finds the canvas not to have the scaled client size
createdTargets(cfg, cv, cl, pixelRatio) ==
    The({Cardinality({i \in 1..Len(log) : log[i].kind = "alloc"})
         : log \in {Run(EmptyWorld, initFramebuffers(cfg, cv[1], cv[2])
                                    \o update(cfg, cv, cl, pixelRatio)).log}})

\* new FluidRenderer(canvas, config): getWebGLContext, and, if it returns,
\* initFramebuffers, new PointerManager (which requests its first animate
\* frame) and the first update() (which resizes the canvas and requests the
\* next update)
constructor(c, gl, cfg, cv, cl, pixelRatio) ==
    LET got == IF c.lost THEN getWebGLContextLost(gl) ELSE getWebGLContext(gl)
    IN IF got.error # "none"
       THEN [c EXCEPT !.error = got.error, !.probes = @ + got.probes, !.canvas = cv]
       ELSE [c EXCEPT !.error = "none", !.probes = @ + got.probes,
                      !.renderer = "live", !.cleanup = TRUE,
                      !.targets = @ + createdTargets(cfg, cv, cl, pixelRatio),
                      !.canvas = scaledClient(cl, pixelRatio),
                      !.scheduled = @ \o <<"animate", "update">>]

\* the effect of FluidSimulation: the constructor in a try block; the catch
\* block logs the error, and no cleanup is returned
mountEffect(c, gl, cfg, cv, cl, pixelRatio) ==
    [constructor([c EXCEPT !.cleanup = FALSE], gl, cfg, cv, cl, pixelRatio)
     EXCEPT !.gl = gl, !.mounted = TRUE, !.mounts = @ + 1, !.frames = 0]

----------------------------------------------------------------------------
(* Shaders.  The driver is a record: whether createShader returns null (the
   context is lost) and the sources whose compilation leaves COMPILE_STATUS
   false.  A shader handle records the source it was compiled from and its
   compile status. *)

\* the sources the constructor compiles, in the order it compiles them
ShaderSources ==
    <<"baseVertex", "copy", "clear", "display",
      "pressure", "divergence", "curl", "vorticity", "gradientSubtract",
      "sunraysMask", "sunrays", "blurVertex", "blur",
      "bloomPrefilter", "bloomBlur", "bloomFinal",
      "splat", "advection", "color">>

SourceNames == {ShaderSources[i] : i \in 1..Len(ShaderSources)}

Drivers ==
    [lost : BOOLEAN, broken : {b \in SUBSET SourceNames : Cardinality(b) <= MaxBroken}]

UnknownDriver == [lost |-> FALSE, broken |-> {"unknown"}]

NoShader == [source |-> "null", ok |-> FALSE]

\* FluidRenderer.compileShader (and compileShader of script.ts): throws only
\* if createShader returns null; a failed compilation is traced and the shader
\* is returned
compileShader(gl, source) ==
    IF gl.lost
    THEN [threw |-> "Failed to create WebGL shader", shader |-> NoShader, trace |-> FALSE]
    ELSE [threw |-> "none", shader |-> [source |-> source, ok |-> source \notin gl.broken],
          trace |-> source \in gl.broken]

\* compileShader of shaderManager.ts: throws if createShader returns null and
\* if COMPILE_STATUS is false
shaderManagerCompileShader(gl, source) ==
    IF gl.lost
    THEN [threw |-> "Failed to create shader", shader |-> NoShader, trace |-> FALSE]
    ELSE IF source \in gl.broken
    THEN [threw |-> "Shader compile error", shader |-> NoShader, trace |-> FALSE]
    ELSE [threw |-> "none", shader |-> [source |-> source, ok |-> TRUE], trace |-> FALSE]

\* nothing was compiled yet, and no renderer was constructed
NoShaders ==
    [gl |-> UnknownDriver, op |-> "none", source |-> "none", shaders |-> <<>>, traces |-> {},
     threw |-> "none", returned |-> NoShader, running |-> FALSE, frames |-> 0, calls |-> 0,
     constructed |-> FALSE]

RECURSIVE compileFrom(_, _, _)
\* the compileShader calls of the constructor and of initPrograms from the
\* i-th on; the first one that throws ends the constructor
compileFrom(c, gl, i) ==
    IF i > Len(ShaderSources) THEN c
    ELSE LET r == compileShader(gl, ShaderSources[i])
         IN IF r.threw # "none"
            THEN [c EXCEPT !.threw = r.threw, !.source = ShaderSources[i]]
            ELSE compileFrom([c EXCEPT !.shaders = Append(@, r.shader),
                                       !.traces = IF r.trace THEN @ \cup {ShaderSources[i]}
                                                  ELSE @,
                                       !.source = ShaderSources[i],
                                       !.returned = r.shader],
                             gl, i + 1)

\* the constructor as far as shaders go: every source is compiled, and if none
\* of the calls threw, the first update() starts the frame loop
shaderConstruct(c, gl) ==
    LET done == compileFrom([c EXCEPT !.gl = gl, !.op = "constructor", !.shaders = <<>>,
                                      !.traces = {}, !.threw = "none",
                                      !.returned = NoShader],
                            gl, 1)
    IN [done EXCEPT !.running = (done.threw = "none"), !.constructed = TRUE]

----------------------------------------------------------------------------
(* Material.  A hash is kept as <<q, r>>, the number q * 2^16 + r with
   0 <= r < 2^16, so that neither the 32-bit wrap of hashCode nor the unwrapped
   sum of setKeywords leaves the integers of the model. *)

Word == 65536

Keywords == {"SHADING", "BLOOM", "SUNRAYS"}

\* the keyword lists setKeywords is called with
KeywordLists ==
    {<<>>, <<"SHADING">>, <<"BLOOM">>, <<"SUNRAYS">>, <<"SHADING", "BLOOM">>,
     <<"BLOOM", "SHADING">>, <<"SHADING", "SUNRAYS">>, <<"BLOOM", "SUNRAYS">>,
     <<"SHADING", "BLOOM", "SUNRAYS">>}

MaterialCode == {"script", "FluidRenderer"}

\* s.charCodeAt(i) for i = 0 .. s.length - 1
charCodes(s) ==
    CASE s = "SHADING" -> <<83, 72, 65, 68, 73, 78, 71>>
      [] s = "BLOOM" -> <<66, 76, 79, 79, 77>>
      [] s = "SUNRAYS" -> <<83, 85, 78, 82, 65, 89, 83>>
      [] OTHER -> <<>>

RECURSIVE hashFrom(_, _, _, _)
\* the loop of hashCode from character i on: hash = (hash << 5) - hash + code,
\* hash |= 0; hi and lo are the two 16-bit halves of the 32-bit hash
hashFrom(codes, i, hi, lo) ==
    IF i > Len(codes) THEN <<hi, lo>>
    ELSE hashFrom(codes, i + 1,
                  (31 * hi + (31 * lo + codes[i]) \div Word) % Word,
                  (31 * lo + codes[i]) % Word)

\* hashCode(s): a signed 32-bit integer
hashCode(s) ==
    LET h == hashFrom(charCodes(s), 1, 0, 0)
    IN <<IF h[1] >= Word \div 2 THEN h[1] - Word ELSE h[1], h[2]>>

RECURSIVE hashSum(_, _, _)
\* the loop of setKeywords: hash += hashCode(keywords[i])
hashSum(keywords, i, hash) ==
    IF i > Len(keywords) THEN hash
    ELSE LET h == hashCode(keywords[i])
         IN hashSum(keywords, i + 1,
                    <<hash[1] + h[1] + (hash[2] + h[2]) \div Word, (hash[2] + h[2]) % Word>>)

\* addKeywords: one '#define' line per keyword, put before the source
addKeywords(source, keywords) == [defines |-> keywords, source |-> source]

\* no Material yet
NoMaterial ==
    [code |-> "none", programs |-> <<>>, hashes |-> <<>>, activeProgram |-> 0,
     compiles |-> 0, links |-> 0, keywords |-> <<>>, before |-> <<>>, n |-> 0]

\* createProgram: the new program is the last one of programs
createProgram(m, fragmentShader) ==
    [m EXCEPT !.programs = Append(@, fragmentShader), !.links = @ + 1]

\* new Material: script.ts keeps the fragment source and builds nothing;
\* FluidRenderer.ts is given the compiled display shader, links it and files the
\* program under hash 0
newMaterial(code) ==
    IF code = "script" THEN [NoMaterial EXCEPT !.code = code]
    ELSE LET m == createProgram([NoMaterial EXCEPT !.code = code],
                                addKeywords("display", <<>>))
         IN [m EXCEPT !.hashes = <<(<<0, 0>>)>>, !.activeProgram = 1]

\* this.programs[hash]: 0 for undefined
cached(m, hash) ==
    IF \E i \in 1..Len(m.hashes) : m.hashes[i] = hash
    THEN CHOOSE i \in 1..Len(m.hashes) : m.hashes[i] = hash
    ELSE 0

\* Material.setKeywords: script.ts compiles the fragment source with the
\* keywords; FluidRenderer.ts links the shader it was constructed with
setKeywords(m, keywords) ==
    LET hash == hashSum(keywords, 1, <<0, 0>>)
        program == cached(m, hash)
        built == IF program # 0 THEN m
                 ELSE IF m.code = "script"
                 THEN [createProgram([m EXCEPT !.compiles = @ + 1],
                                     addKeywords("display", keywords))
                       EXCEPT !.hashes = Append(@, hash)]
                 ELSE [createProgram(m, addKeywords("display", <<>>))
                       EXCEPT !.hashes = Append(@, hash)]
    IN [built EXCEPT !.activeProgram = cached(built, hash)]

----------------------------------------------------------------------------
(* Two renderers.  bloomFramebuffers of bloomManager.ts and currentScheme /
   currentColors of colorManager.ts are variables of their modules: there is
   one of each on a page, whatever the number of FluidRenderer objects.  A
   level of the mip chain is kept with the renderer whose WebGL context it was
   created in. *)

Instances == {"A", "B"}

\* the Partial<Config> objects handed to the two renderers
DuoPartialConfigs ==
    {<<>>, [COLOR_SCHEME |-> "dusk"], [COLOR_SCHEME |-> "rosolane_to_helvetia"],
     [BLOOM_ITERATIONS |-> 2]}

NoInstances ==
    [inst |-> [i \in Instances |-> [phase |-> "new", size |-> <<0, 0>>, config |-> <<>>]],
     bloomFramebuffers |-> <<>>, color |-> InitialColor,
     who |-> "none", op |-> "none", before |-> <<>>, n |-> 0]

\* initBloomFramebuffers as renderer i calls it: the module's chain is
\* replaced by levels created in i's context
duoInitBloomFramebuffers(d, i, cfg, W, H) ==
    LET res == getResolution(BLOOM_RESOLUTION, W, H)
    IN [d EXCEPT !.bloomFramebuffers =
           [k \in 1..MipLevels(res, cfg.BLOOM_ITERATIONS) |->
               [owner |-> i, width |-> ShiftRight(res.width, k),
                height |-> ShiftRight(res.height, k)]]]

\* setColorScheme / updateConfig of renderer i on the module's palette
duoUpdateConfig(d, i, newConfig) ==
    LET c == updateConfig([d.color EXCEPT !.config = d.inst[i].config], newConfig)
    IN [d EXCEPT !.inst[i].config = c.config, !.color = [c EXCEPT !.config = <<>>]]

\* new FluidRenderer(canvas_i, partial): the configuration, initColorScheme,
\* initFramebuffers
duoConstruct(d, i, partial, W, H) ==
    LET cfg == IF partial = <<>> THEN ColorDefaultConfig
               ELSE MergeConfig(ColorDefaultConfig, partial)
        c == setColorScheme(d.color, cfg.COLOR_SCHEME)
    IN duoInitBloomFramebuffers(
           [d EXCEPT !.inst[i] = [phase |-> "running", size |-> <<W, H>>, config |-> cfg],
                     !.color = c],
           i, cfg, W, H)

\* what the other renderers see before an operation
Snapshot(d) ==
    [inst |-> d.inst, bloomFramebuffers |-> d.bloomFramebuffers,
     currentScheme |-> d.color.currentScheme, currentColors |-> d.color.currentColors]

\* an operation `op` of renderer i is recorded with the state it started in
duoRecord(d, d0, i, op) ==
    [d EXCEPT !.who = i, !.op = op, !.before = Snapshot(d0), !.n = @ + 1]

----------------------------------------------------------------------------
\* getResolution was not called yet
NoResolution == [resolution |-> 0, W |-> 0, H |-> 0, width |-> 0, height |-> 0]

\* the resolutions the renderer asks for
Resolutions == {SIM_RESOLUTION, DYE_RESOLUTION, BLOOM_RESOLUTION, SUNRAYS_RESOLUTION}

----------------------------------------------------------------------------
(* The splat radius.  A radius and an aspect ratio are fractions
   <<numerator, denominator>> with a positive denominator. *)

\* config.SPLAT_RADIUS: the defaults of FluidRenderer.ts and script.ts, zero
\* and a negative radius
SplatRadii == {<<3, 10000>>, <<1, 100>>, <<0, 1>>, <<-1, 100>>}

RECURSIVE GCD(_, _)
GCD(a, b) == IF b = 0 THEN a ELSE GCD(b, a % b)

\* the fraction n / d in lowest terms, d > 0
Fraction(n, d) ==
    LET g == GCD(Abs(n), d)
    IN <<n \div g, d \div g>>

\* a correctRadius that scales the radius on every canvas
correctRadiusAlways(radius, aspectRatio) ==
    Fraction(radius[1] * aspectRatio[1], radius[2] * aspectRatio[2])

\* correctRadius(radius, aspectRatio): if (aspectRatio > 1) radius *= aspectRatio
correctRadius(radius, aspectRatio) ==
    IF aspectRatio[1] > aspectRatio[2]
    THEN Fraction(radius[1] * aspectRatio[1], radius[2] * aspectRatio[2])
    ELSE radius

\* the radius uniform of applySplat:
\* correctRadius(config.SPLAT_RADIUS / 100.0, canvas.width / canvas.height)
splatRadiusUniform(SPLAT_RADIUS, W, H) ==
    correctRadius(Fraction(SPLAT_RADIUS[1], SPLAT_RADIUS[2] * 100), Fraction(W, H))

NoSplats ==
    [s |-> EmptyWorld, size |-> <<0, 0>>, SPLAT_RADIUS |-> <<0, 1>>, radius |-> <<0, 1>>,
     n |-> 0]

----------------------------------------------------------------------------
\* initBloomFramebuffers was not called yet
NoChain == [width |-> 0, height |-> 0, iterations |-> 0, levels |-> <<>>, called |-> FALSE]

\* the sizes of the targets of bloomFramebuffers
chainLevels(s) ==
    [k \in 1..Len(s.bloomFramebuffers) |->
        [width |-> s.heap[s.bloomFramebuffers[k]].width,
         height |-> s.heap[s.bloomFramebuffers[k]].height]]

----------------------------------------------------------------------------
(* The palette and the splats.  getRandomColor returns an element of
   currentColors itself, not a copy: what a caller assigns to the fields of
   the color it was given is assigned to the palette entry. *)

\* Math.floor(Math.random() * currentColors.length) + 1, before it is reduced
\* to the length of the palette
PickIndices == {1, 2}

\* the schemes selected while splats are made
PaletteSchemes == {"dusk", "rosolane_to_helvetia"}

\* the multipleSplats amounts
SplatAmounts == {1, 2}

\* colorManager's module state and a page without a PointerManager:
\* fixedColors are the oscillators' colors, shared[i] the index of the
\* palette entry that fixedColors[i] is (the same object), 0 once the palette
\* array was replaced
NoPalette ==
    [c |-> InitialColor, op |-> "none", colors |-> <<>>, n |-> 0, m |-> 0,
     fixedColors |-> <<>>, shared |-> <<>>]

\* the index of the palette entry getRandomColor returns
pickIndex(c, i) == ((i - 1) % Len(c.currentColors)) + 1

\* the loop body of multipleSplats: color = getColorFromScheme();
\* color.r *= 10.0; color.g *= 10.0; color.b *= 10.0; applySplat(..., color, ...);
\* the color is the palette entry, and the color of every oscillator that
\* was given this entry
multipleSplatsStep(q, i) ==
    LET c == getRandomColor(q.c)
        k == pickIndex(c, i)
        color == [r |-> c.currentColors[k].r * 10, g |-> c.currentColors[k].g * 10,
                  b |-> c.currentColors[k].b * 10]
    IN [q EXCEPT !.c = [c EXCEPT !.currentColors[k] = color],
                 !.colors = Append(@, color),
                 !.fixedColors = [j \in 1..Len(q.fixedColors) |->
                                     IF q.shared[j] = k THEN color ELSE q.fixedColors[j]]]

RECURSIVE multipleSplats(_, _)
\* multipleSplats(amount, ..., getColorFromScheme) with the random picks
multipleSplats(q, picks) ==
    IF picks = <<>> THEN q
    ELSE multipleSplats(multipleSplatsStep(q, Head(picks)), Tail(picks))

\* the constructor of PointerManager: fixedColors = Array.from({length:
\* NUM_OSCILLATORS}, () => getColorCallback()), one getRandomColor() per
\* oscillator with the random picks; the first one selects the palette when
\* there is none
pointerManagerColors(q, picks) ==
    LET c == getRandomColor(q.c)
    IN [q EXCEPT !.c = c,
                 !.fixedColors = [i \in 1..Len(picks) |-> c.currentColors[pickIndex(c, picks[i])]],
                 !.shared = [i \in 1..Len(picks) |-> pickIndex(c, picks[i])]]

\* the splat of oscillator `index` in animate: color: this.fixedColors[index],
\* which goes through onSplatCallback, handleSplat and handlePointerSplat to
\* applySplat, which reads its fields; the palette is not asked
oscillatorColorSplat(q, index) ==
    [q EXCEPT !.colors = <<q.fixedColors[index]>>]

----------------------------------------------------------------------------
(* The oscillators anywhere in the plane.  The forcing, the damping and the
   stiffness come from config.DUFFING: under a forcing stronger than the
   default one the position (x, y) leaves the square that the canvas shows.
   OscillatorStates are positions and velocities of such oscillators. *)

OscillatorStates ==
    {[x |-> 0, y |-> 0, dx |-> 0, dy |-> 500],
     [x |-> 20000, y |-> -20000, dx |-> 3000, dy |-> 0],
     [x |-> -20000, y |-> 9000, dx |-> -3000, dy |-> 10000],
     [x |-> 9000, y |-> 20000, dx |-> 20000, dy |-> -20000]}

\* the oscillator of the given index at the given position and velocity
oscillatorAt(index, total, s) ==
    [newDuffingOscillator(index, total) EXCEPT !.x = s.x, !.y = s.y, !.dx = s.dx, !.dy = s.dy]

----------------------------------------------------------------------------
(* One DuffingOscillator *)

\* the numbers of oscillators whose phases are whole twelfths of a turn
OscillatorTotals == {1, 2, 3, 4}

NoOscillator == [o |-> <<>>, op |-> "none", n |-> 0, updates |-> 0]

----------------------------------------------------------------------------
Init ==
    /\ phase = "new"
    /\ config = DefaultConfig
    /\ devicePixelRatio \in PixelRatios
    /\ client \in ClientSizes
    /\ canvas = client
    /\ world = EmptyWorld
    /\ animationFrameId = "null"
    /\ pmAnimationFrameId = "null"
    /\ scheduled = <<>>
    /\ frameQueue = <<>>
    /\ lastOp = "none"
    /\ fb = [s |-> EmptyWorld, ops |-> <<>>, snaps |-> <<>>, calls |-> <<>>, n |-> 0]
    /\ pm = NoPointers
    /\ osc = NoOscillators
    /\ clock = InitialClock
    /\ colorState = InitialColor
    /\ ctx = NoContext
    /\ sh = NoShaders
    /\ mat = NoMaterial
    /\ duo = NoInstances
    /\ reso = NoResolution
    /\ sp = NoSplats
    /\ chain = NoChain
    /\ pal = NoPalette
    /\ tick = NoOscillators
    /\ rst = NoOscillator

\* new FluidRenderer(canvas, partial): merge the configuration, initFramebuffers,
\* new PointerManager (which requests its first animate frame), then the first update()
Construct ==
    /\ phase = "new"
    /\ \E partial \in PartialConfigs :
         \E cfg \in {MergeConfig(DefaultConfig, partial)} :
            /\ config' = cfg
            /\ world' = Collect(Run(EmptyWorld,
                                    initFramebuffers(cfg, canvas[1], canvas[2])
                                    \o update(cfg, canvas, client, devicePixelRatio)))
    /\ canvas' = scaledClient(client, devicePixelRatio)
    /\ pmAnimationFrameId' = "animate"
    /\ animationFrameId' = "update"
    /\ scheduled' = <<"animate", "update">>
    /\ phase' = "running"
    /\ lastOp' = "constructor"
    /\ UNCHANGED <<devicePixelRatio, client, frameQueue, fb>>
    /\ UNCHANGED otherVars

\* the browser starts an animation frame: the callbacks requested so far run in order
BeginFrame ==
    /\ phase # "new"
    /\ frameQueue = <<>>
    /\ scheduled # <<>>
    /\ frameQueue' = scheduled
    /\ scheduled' = <<>>
    /\ UNCHANGED <<phase, config, devicePixelRatio, client, canvas, world, animationFrameId,
                   pmAnimationFrameId, lastOp, fb>>
    /\ UNCHANGED otherVars

\* FluidRenderer.update as a requestAnimationFrame callback
UpdateTick ==
    /\ frameQueue # <<>>
    /\ Head(frameQueue) = "update"
    /\ world' = Collect(Run([world EXCEPT !.log = <<>>],
                            update(config, canvas, client, devicePixelRatio)))
    /\ canvas' = scaledClient(client, devicePixelRatio)
    /\ animationFrameId' = "update"
    /\ scheduled' = Append(scheduled, "update")
    /\ frameQueue' = Tail(frameQueue)
    /\ lastOp' = "update"
    /\ UNCHANGED <<phase, config, devicePixelRatio, client, pmAnimationFrameId, fb>>
    /\ UNCHANGED otherVars

\* PointerManager.animate as a requestAnimationFrame callback
AnimateTick ==
    /\ frameQueue # <<>>
    /\ Head(frameQueue) = "animate"
    /\ world' = Collect(Run([world EXCEPT !.log = <<>>], animate))
    /\ pmAnimationFrameId' = "animate"
    /\ scheduled' = Append(scheduled, "animate")
    /\ frameQueue' = Tail(frameQueue)
    /\ lastOp' = "animate"
    /\ UNCHANGED <<phase, config, devicePixelRatio, client, canvas, animationFrameId, fb>>
    /\ UNCHANGED otherVars

\* FluidRenderer.updateConfig(newConfig)
UpdateConfig ==
    /\ phase # "new"
    /\ frameQueue = <<>>
    /\ \E newConfig \in PartialConfigs : config' = MergeConfig(config, newConfig)
    /\ world' = [world EXCEPT !.log = <<>>]
    /\ lastOp' = "updateConfig"
    /\ UNCHANGED <<phase, devicePixelRatio, client, canvas, animationFrameId,
                   pmAnimationFrameId, scheduled, frameQueue, fb>>
    /\ UNCHANGED otherVars

\* FluidRenderer.destroy(): cancels the renderer's own pending frame,
\* deletes the bound vertex and index buffers of the quad, and loses the
\* context if the canvas has the WEBGL_lose_context extension
Destroy ==
    /\ phase = "running"
    /\ frameQueue = <<>>
    /\ scheduled' = IF animationFrameId # "null" THEN cancel(scheduled, animationFrameId)
                    ELSE scheduled
    /\ phase' = "destroyed"
    /\ \E loseContext \in BOOLEAN :
         world' = [world EXCEPT !.log = <<>>, !.buffers = FALSE, !.lost = loseContext]
    /\ lastOp' = "destroy"
    /\ UNCHANGED <<config, devicePixelRatio, client, canvas, animationFrameId,
                   pmAnimationFrameId, frameQueue, fb>>
    /\ UNCHANGED otherVars

\* PointerManager.generateSplat(posX, posY, color), called between frames:
\* one onSplatCallback, which is the renderer's handleSplat
GenerateSplat ==
    /\ phase # "new"
    /\ frameQueue = <<>>
    /\ world' = Collect(Run([world EXCEPT !.log = <<>>], generateSplat))
    /\ lastOp' = "generateSplat"
    /\ UNCHANGED <<phase, config, devicePixelRatio, client, canvas, animationFrameId,
                   pmAnimationFrameId, scheduled, frameQueue, fb>>
    /\ UNCHANGED otherVars

\* the host changes the canvas's CSS size between frames: it turns the
\* canvas from landscape to portrait or back
HostResize ==
    /\ phase = "running"
    /\ frameQueue = <<>>
    /\ client[1] # client[2]
    /\ client' = <<client[2], client[1]>>
    /\ UNCHANGED <<phase, config, devicePixelRatio, canvas, world, animationFrameId,
                   pmAnimationFrameId, scheduled, frameQueue, lastOp, fb>>
    /\ UNCHANGED otherVars

Next ==
    \/ Construct
    \/ BeginFrame
    \/ UpdateTick
    \/ AnimateTick
    \/ UpdateConfig
    \/ Destroy
    \/ GenerateSplat
    \/ HostResize

Spec == Init /\ [][Next]_vars

----------------------------------------------------------------------------
(* A double buffer on its own: any sequence of createDoubleFBO, swap() and
   resizeDoubleFBO.  fb.ops names the calls since the last createDoubleFBO,
   fb.snaps holds the buffer object after each of them and fb.calls the
   size asked for, the target that resizeDoubleFBO passed to resizeFBO and
   the target resizeFBO returned (NoFBO when it was not called), and the
   number of targets the call allocated. *)

FBOCall(w, h, arg, ret, allocated) ==
    [w |-> w, h |-> h, arg |-> arg, ret |-> ret, allocated |-> allocated]

FBOStep(s0, op, call) ==
    The({[s |-> [s EXCEPT !.log = <<>>],
          ops |-> Append(fb.ops, op),
          snaps |-> Append(fb.snaps, s.target),
          calls |-> Append(fb.calls, [call EXCEPT !.allocated = Len(s.heap) - Len(fb.s.heap)]),
          n |-> fb.n + 1] : s \in {s0}})

FBOCreate ==
    /\ fb.n < MaxFBOOps
    /\ \E size \in FBOSizes :
         \E s \in {newDoubleFBO([EmptyWorld EXCEPT !.stage = "fbo"], "target", size[1], size[2])} :
            fb' = [s |-> [s EXCEPT !.log = <<>>],
                   ops |-> <<"create">>, snaps |-> <<s.target>>,
                   calls |-> <<FBOCall(size[1], size[2], NoFBO, NoFBO, Len(s.heap))>>,
                   n |-> fb.n + 1]
    /\ UNCHANGED <<rendererVars, otherVars>>

FBOSwap ==
    /\ fb.n < MaxFBOOps
    /\ fb.ops # <<>>
    /\ fb' = FBOStep(swapBuffer(fb.s, "target"), "swap", FBOCall(0, 0, NoFBO, NoFBO, 0))
    /\ UNCHANGED <<rendererVars, otherVars>>

\* target = resizeDoubleFBO(target, w, h): the object passed and the object
\* returned are the one double buffer, whose fields fb.snaps records; when
\* the size test lets it through, target.read = resizeFBO(target.read, w, h)
\* is the one call of resizeFBO, with the read side the buffer has then
FBOResize ==
    /\ fb.n < MaxFBOOps
    /\ fb.ops # <<>>
    /\ \E size \in FBOSizes :
         \E s \in {resizeDoubleFBO(fb.s, "target", size[1], size[2])} :
            fb' = FBOStep(s, "resize",
                          IF s.log = <<>>
                          THEN FBOCall(size[1], size[2], NoFBO, NoFBO, 0)
                          ELSE FBOCall(size[1], size[2], fb.s.target.read, s.target.read, 0))
    /\ UNCHANGED <<rendererVars, otherVars>>

NextFBO ==
    \/ FBOCreate
    \/ FBOSwap
    \/ FBOResize

SpecFBO == Init /\ [][NextFBO]_vars

----------------------------------------------------------------------------
(* The mouse pointer: listeners and the frame *)

\* the pointer list is created with one pointer, whose color is picked then
PointerSetup ==
    /\ pm.code = "none"
    /\ \E code \in PointerCode : \E color \in PointerColors :
         pm' = [code |-> code, n |-> 0, moves |-> 0, frames |-> 0, splats |-> <<>>,
                pointer |-> createPointer(color)]
    /\ UNCHANGED <<rendererVars, fb, osc, clock, colorState, ctx, sh, mat, duo, reso, sp, chain, pal, tick, rst>>

\* the mousedown listener
MouseDown ==
    /\ pm.code # "none"
    /\ pm.n < MaxPointerEvents
    /\ \E offset \in MouseOffsets : \E color \in PointerColors :
         pm' = [pm EXCEPT !.n = @ + 1,
                          !.pointer = updatePointerDownData(@, -1,
                                          scaleByPixelRatio(offset[1], devicePixelRatio),
                                          scaleByPixelRatio(offset[2], devicePixelRatio),
                                          color, canvas[1], canvas[2])]
    /\ UNCHANGED <<rendererVars, fb, osc, clock, colorState, ctx, sh, mat, duo, reso, sp, chain, pal, tick, rst>>

\* the mousemove listener: ignored unless the pointer is down; the class
\* PointerManager requests a splat at once when the pointer moved
MouseMove ==
    /\ pm.code # "none"
    /\ pm.n < MaxPointerEvents
    /\ \E offset \in MouseOffsets :
         \E p \in {[pm EXCEPT !.n = @ + 1, !.moves = @ + 1]} :
            pm' = IF ~p.pointer.down THEN p
                  ELSE The({IF p.code = "PointerManager" /\ q.pointer.moved /\ q.pointer.down
                            THEN onSplatCallback(q, "move")
                            ELSE q
                            : q \in {[p EXCEPT !.pointer =
                                         updatePointerMoveData(@,
                                             scaleByPixelRatio(offset[1], devicePixelRatio),
                                             scaleByPixelRatio(offset[2], devicePixelRatio),
                                             canvas[1], canvas[2])]}})
    /\ UNCHANGED <<rendererVars, fb, osc, clock, colorState, ctx, sh, mat, duo, reso, sp, chain, pal, tick, rst>>

\* the mouseup listener of the window
MouseUp ==
    /\ pm.code # "none"
    /\ pm.n < MaxPointerEvents
    /\ pm' = [pm EXCEPT !.n = @ + 1, !.pointer = updatePointerUpData(@)]
    /\ UNCHANGED <<rendererVars, fb, osc, clock, colorState, ctx, sh, mat, duo, reso, sp, chain, pal, tick, rst>>

\* the part of a frame that reads the pointers: applyInputs()
PointerFrame ==
    /\ pm.code # "none"
    /\ pm.n < MaxPointerEvents
    /\ pm' = pointerApplyInputs([pm EXCEPT !.n = @ + 1, !.frames = @ + 1])
    /\ UNCHANGED <<rendererVars, fb, osc, clock, colorState, ctx, sh, mat, duo, reso, sp, chain, pal, tick, rst>>

\* the public generateSplat of the class PointerManager, called at any time
PointerGenerateSplat ==
    /\ pm.code = "PointerManager"
    /\ pm.n < MaxPointerEvents
    /\ \E pos \in MouseOffsets : \E color \in PointerColors :
         pm' = pointerGenerateSplat([pm EXCEPT !.n = @ + 1], pos[1], pos[2], color,
                                    devicePixelRatio, canvas[1], canvas[2])
    /\ UNCHANGED <<rendererVars, fb, osc, clock, colorState, ctx, sh, mat, duo, reso, sp, chain, pal, tick, rst>>

NextPointer ==
    \/ PointerSetup
    \/ MouseDown
    \/ MouseMove
    \/ MouseUp
    \/ PointerFrame
    \/ PointerGenerateSplat

SpecPointer == Init /\ [][NextPointer]_vars

----------------------------------------------------------------------------
(* pointerManager.ts on its own: the constructor, the animate callback and
   stopAnimation *)

\* new PointerManager(canvas, getColorCallback, onSplatCallback, config):
\* one color, one oscillator and one pointer per index, then startAnimation()
OscConstruct ==
    /\ osc.oscillators = <<>>
    /\ \E colors \in [1..NumOscillators -> PointerColors] :
         osc' = [started |-> TRUE,
                 oscillators |-> [i \in 1..NumOscillators |-> newDuffingOscillator(i - 1, NumOscillators)],
                 pointers |-> [i \in 1..NumOscillators |-> createOscillatorPointer(colors[i])],
                 fixedColors |-> colors, ticks |-> 0, splats |-> <<>>, previous |-> <<>>]
    /\ UNCHANGED <<rendererVars, fb, pm, clock, colorState, ctx, sh, mat, duo, reso, sp, chain, pal, tick, rst>>

\* the animate callback, `elapsed` milliseconds after the one before
OscTick ==
    /\ osc.started
    /\ osc.ticks < MaxTicks
    /\ \E elapsed \in ElapsedMs :
         osc' = oscAnimate(osc, deltaTime(elapsed), canvas[1], canvas[2])
    /\ UNCHANGED <<rendererVars, fb, pm, clock, colorState, ctx, sh, mat, duo, reso, sp, chain, pal, tick, rst>>

\* stopAnimation(): cancels the pending animate callback
OscStop ==
    /\ osc.started
    /\ osc' = [osc EXCEPT !.started = FALSE]
    /\ UNCHANGED <<rendererVars, fb, pm, clock, colorState, ctx, sh, mat, duo, reso, sp, chain, pal, tick, rst>>

NextOscillator ==
    \/ OscConstruct
    \/ OscTick
    \/ OscStop

SpecOscillator == Init /\ [][NextOscillator]_vars

----------------------------------------------------------------------------
(* calcDeltaTime on its own: the wall clock moves (Date.now() may also step
   back), and update calls calcDeltaTime *)

ClockStep ==
    /\ clock.n < MaxClockSteps
    /\ \E ms \in ClockSteps :
         clock' = [clock EXCEPT !.now = @ + ms, !.n = @ + 1, !.last = "step"]
    /\ UNCHANGED <<rendererVars, fb, pm, osc, colorState, ctx, sh, mat, duo, reso, sp, chain, pal, tick, rst>>

CalcDeltaTime ==
    /\ clock.n < MaxClockSteps
    /\ clock' = [calcDeltaTime(clock) EXCEPT !.n = @ + 1, !.last = "calcDeltaTime"]
    /\ UNCHANGED <<rendererVars, fb, pm, osc, colorState, ctx, sh, mat, duo, reso, sp, chain, pal, tick, rst>>

NextClock ==
    \/ ClockStep
    \/ CalcDeltaTime

SpecClock == Init /\ [][NextClock]_vars

----------------------------------------------------------------------------
(* colorManager and the configuration on their own *)

\* the constructor: config = { ...defaults, ...config }, initColorScheme()
ColorConstruct ==
    /\ colorState.config = <<>>
    /\ \E partial \in ColorPartialConfigs :
         \E cfg \in {IF partial = <<>> THEN ColorDefaultConfig
                      ELSE MergeConfig(ColorDefaultConfig, partial)} :
            colorState' = [setColorScheme([colorState EXCEPT !.config = cfg], cfg.COLOR_SCHEME)
                        EXCEPT !.op = "constructor", !.scheme = cfg.COLOR_SCHEME,
                               !.partial = partial, !.before = ColorDefaultConfig]
    /\ UNCHANGED <<rendererVars, fb, pm, osc, clock, ctx, sh, mat, duo, reso, sp, chain, pal, tick, rst>>

ColorUpdateConfig ==
    /\ colorState.config # <<>>
    /\ colorState.n < MaxColorCalls
    /\ \E partial \in ColorPartialConfigs :
         colorState' = [updateConfig(colorState, partial)
                     EXCEPT !.op = "updateConfig", !.n = @ + 1, !.partial = partial,
                            !.before = colorState.config,
                            !.scheme = IF HasKey(partial, "COLOR_SCHEME")
                                       THEN partial.COLOR_SCHEME ELSE ""]
    /\ UNCHANGED <<rendererVars, fb, pm, osc, clock, ctx, sh, mat, duo, reso, sp, chain, pal, tick, rst>>

SetColorScheme ==
    /\ colorState.n < MaxColorCalls
    /\ \E scheme \in SchemeNames :
         colorState' = [setColorScheme(colorState, scheme)
                     EXCEPT !.op = "setColorScheme", !.n = @ + 1, !.scheme = scheme,
                            !.partial = <<>>, !.before = colorState.config]
    /\ UNCHANGED <<rendererVars, fb, pm, osc, clock, ctx, sh, mat, duo, reso, sp, chain, pal, tick, rst>>

GetRandomColor ==
    /\ colorState.n < MaxColorCalls
    /\ colorState' = [getRandomColor(colorState)
                    EXCEPT !.op = "getRandomColor", !.n = @ + 1, !.scheme = "",
                           !.partial = <<>>, !.before = colorState.config]
    /\ UNCHANGED <<rendererVars, fb, pm, osc, clock, ctx, sh, mat, duo, reso, sp, chain, pal, tick, rst>>

NextColor ==
    \/ ColorConstruct
    \/ ColorUpdateConfig
    \/ SetColorScheme
    \/ GetRandomColor

SpecColor == Init /\ [][NextColor]_vars

----------------------------------------------------------------------------
(* The component on its own: it is mounted on a canvas, animation frames
   run, it is unmounted and mounted again *)

\* the effect runs: the canvas's capability is fixed by the first getContext,
\* and the canvas keeps the size an earlier renderer gave it
ContextMount ==
    /\ ~ctx.mounted
    /\ ctx.mounts < MaxMounts
    /\ \E gl \in (IF ctx.gl = UnknownGL THEN Capabilities ELSE {ctx.gl}) :
         ctx' = mountEffect(ctx, gl, config, IF ctx.mounts = 0 THEN canvas ELSE ctx.canvas,
                            client, devicePixelRatio)
    /\ UNCHANGED <<rendererVars, fb, pm, osc, clock, colorState, sh, mat, duo, reso, sp, chain, pal, tick, rst>>

\* an animation frame, mounted or not: every requested callback runs and
\* requests itself again
ContextFrame ==
    /\ ctx.frames < MaxContextFrames
    /\ ctx' = [ctx EXCEPT !.ticks = @ + Len(ctx.scheduled), !.frames = @ + 1]
    /\ UNCHANGED <<rendererVars, fb, pm, osc, clock, colorState, sh, mat, duo, reso, sp, chain, pal, tick, rst>>

\* the cleanup of the effect, if the effect returned one: renderer.destroy(),
\* which cancels the renderer's own frame and loses the context if the
\* canvas has the WEBGL_lose_context extension
ContextUnmount ==
    /\ ctx.mounted
    /\ \E loseContext \in BOOLEAN :
         ctx' = IF ctx.cleanup
                THEN [ctx EXCEPT !.mounted = FALSE, !.renderer = "destroyed",
                                 !.cleanup = FALSE,
                                 !.scheduled = cancel(@, "update"),
                                 !.lost = loseContext]
                ELSE [ctx EXCEPT !.mounted = FALSE]
    /\ UNCHANGED <<rendererVars, fb, pm, osc, clock, colorState, sh, mat, duo, reso, sp, chain, pal, tick, rst>>

NextContext ==
    \/ ContextMount
    \/ ContextFrame
    \/ ContextUnmount

SpecContext == Init /\ [][NextContext]_vars

----------------------------------------------------------------------------
(* Shader compilation on its own *)

\* new FluidRenderer on a driver, the one renderer of the page, before or
\* after calls of shaderManager's compileShader on the same driver
ShaderConstruct ==
    /\ ~sh.constructed
    /\ \E gl \in (IF sh.gl = UnknownDriver THEN Drivers ELSE {sh.gl}) :
         sh' = shaderConstruct(sh, gl)
    /\ UNCHANGED <<rendererVars, fb, pm, osc, clock, colorState, ctx, mat, duo, reso, sp, chain, pal, tick, rst>>

\* an animation frame of the running renderer: update() requests the next one
ShaderFrame ==
    /\ sh.running
    /\ sh.frames < MaxContextFrames
    /\ sh' = [sh EXCEPT !.op = "update", !.frames = @ + 1]
    /\ UNCHANGED <<rendererVars, fb, pm, osc, clock, colorState, ctx, mat, duo, reso, sp, chain, pal, tick, rst>>

\* a call of the exported compileShader of shaderManager.ts
ShaderManagerCompile ==
    /\ sh.calls < MaxShaderCalls
    /\ \E gl \in (IF sh.gl = UnknownDriver THEN Drivers ELSE {sh.gl}) :
         \E source \in SourceNames :
            LET r == shaderManagerCompileShader(gl, source)
            IN sh' = [sh EXCEPT !.gl = gl, !.op = "shaderManager.compileShader",
                                !.source = source, !.threw = r.threw,
                                !.returned = r.shader,
                                !.traces = IF r.trace THEN @ \cup {source} ELSE @,
                                !.calls = @ + 1]
    /\ UNCHANGED <<rendererVars, fb, pm, osc, clock, colorState, ctx, mat, duo, reso, sp, chain, pal, tick, rst>>

NextShader ==
    \/ ShaderConstruct
    \/ ShaderFrame
    \/ ShaderManagerCompile

SpecShader == Init /\ [][NextShader]_vars

----------------------------------------------------------------------------
(* The display Material on its own *)

MaterialConstruct ==
    /\ mat.code = "none"
    /\ \E code \in MaterialCode : mat' = newMaterial(code)
    /\ UNCHANGED <<rendererVars, fb, pm, osc, clock, colorState, ctx, sh, duo, reso, sp, chain, pal, tick, rst>>

SetKeywords ==
    /\ mat.code # "none"
    /\ mat.n < MaxSetKeywords
    /\ \E keywords \in KeywordLists :
         mat' = [setKeywords(mat, keywords)
                 EXCEPT !.keywords = keywords, !.n = @ + 1,
                        !.before = [programs |-> mat.programs, hashes |-> mat.hashes,
                                    compiles |-> mat.compiles, links |-> mat.links]]
    /\ UNCHANGED <<rendererVars, fb, pm, osc, clock, colorState, ctx, sh, duo, reso, sp, chain, pal, tick, rst>>

NextMaterial ==
    \/ MaterialConstruct
    \/ SetKeywords

SpecMaterial == Init /\ [][NextMaterial]_vars

----------------------------------------------------------------------------
(* Two renderers on one page *)

DuoConstruct ==
    /\ duo.n < MaxDuoOps
    /\ \E i \in Instances, partial \in DuoPartialConfigs, size \in ClientSizes :
         /\ duo.inst[i].phase = "new"
         /\ duo' = duoRecord(duoConstruct(duo, i, partial, size[1], size[2]),
                             duo, i, "constructor")
    /\ UNCHANGED <<rendererVars, fb, pm, osc, clock, colorState, ctx, sh, mat, reso, sp, chain, pal, tick, rst>>

\* a tick of renderer i after its canvas changed size: initFramebuffers
DuoResize ==
    /\ duo.n < MaxDuoOps
    /\ \E i \in Instances, size \in ClientSizes :
         /\ duo.inst[i].phase = "running"
         /\ size # duo.inst[i].size
         /\ duo' = duoRecord(duoInitBloomFramebuffers(
                                 [duo EXCEPT !.inst[i].size = size],
                                 i, duo.inst[i].config, size[1], size[2]),
                             duo, i, "initFramebuffers")
    /\ UNCHANGED <<rendererVars, fb, pm, osc, clock, colorState, ctx, sh, mat, reso, sp, chain, pal, tick, rst>>

DuoUpdateConfig ==
    /\ duo.n < MaxDuoOps
    /\ \E i \in Instances, newConfig \in DuoPartialConfigs :
         /\ duo.inst[i].phase # "new"
         /\ duo' = duoRecord(duoUpdateConfig(duo, i, newConfig), duo, i, "updateConfig")
    /\ UNCHANGED <<rendererVars, fb, pm, osc, clock, colorState, ctx, sh, mat, reso, sp, chain, pal, tick, rst>>

DuoDestroy ==
    /\ duo.n < MaxDuoOps
    /\ \E i \in Instances :
         /\ duo.inst[i].phase = "running"
         /\ duo' = duoRecord([duo EXCEPT !.inst[i].phase = "destroyed"], duo, i, "destroy")
    /\ UNCHANGED <<rendererVars, fb, pm, osc, clock, colorState, ctx, sh, mat, reso, sp, chain, pal, tick, rst>>

NextDuo ==
    \/ DuoConstruct
    \/ DuoResize
    \/ DuoUpdateConfig
    \/ DuoDestroy

SpecDuo == Init /\ [][NextDuo]_vars

----------------------------------------------------------------------------
(* getResolution on its own *)

GetResolution ==
    /\ \E resolution \in Resolutions, W \in BufferSides, H \in BufferSides :
         LET res == getResolution(resolution, W, H)
         IN reso' = [resolution |-> resolution, W |-> W, H |-> H,
                     width |-> res.width, height |-> res.height]
    /\ UNCHANGED <<rendererVars, fb, pm, osc, clock, colorState, ctx, sh, mat, duo, sp, chain, pal, tick, rst>>

NextResolution == GetResolution

SpecResolution == Init /\ [][NextResolution]_vars

----------------------------------------------------------------------------
(* applySplat on its own *)

\* a renderer on a canvas: its targets
SplatSetup ==
    /\ sp.size = <<0, 0>>
    /\ \E size \in ClientSizes :
         sp' = [sp EXCEPT !.size = size,
                          !.s = Collect(Run(EmptyWorld,
                                            initFramebuffers(config, size[1], size[2])))]
    /\ UNCHANGED <<rendererVars, fb, pm, osc, clock, colorState, ctx, sh, mat, duo, reso, chain, pal, tick, rst>>

\* handleSplat with SPLAT_RADIUS as configured
ApplySplat ==
    /\ sp.size # <<0, 0>>
    /\ sp.n < MaxSplats
    /\ \E r \in SplatRadii :
         sp' = [sp EXCEPT !.s = Collect(handleSplat([sp.s EXCEPT !.log = <<>>])),
                          !.SPLAT_RADIUS = r,
                          !.radius = splatRadiusUniform(r, sp.size[1], sp.size[2]),
                          !.n = @ + 1]
    /\ UNCHANGED <<rendererVars, fb, pm, osc, clock, colorState, ctx, sh, mat, duo, reso, chain, pal, tick, rst>>

NextSplat ==
    \/ SplatSetup
    \/ ApplySplat

SpecSplat == Init /\ [][NextSplat]_vars

----------------------------------------------------------------------------
(* initBloomFramebuffers on its own *)

InitBloomFramebuffers ==
    /\ \E w \in BaseSides, h \in BaseSides, iterations \in 0..MaxChainIterations :
         chain' = [width |-> w, height |-> h, iterations |-> iterations, called |-> TRUE,
                   levels |-> chainLevels(Run(EmptyWorld,
                                bloomFramebuffersOf([width |-> w, height |-> h],
                                                    iterations)))]
    /\ UNCHANGED <<rendererVars, fb, pm, osc, clock, colorState, ctx, sh, mat, duo, reso, sp, pal, tick, rst>>

NextChain == InitBloomFramebuffers

SpecChain == Init /\ [][NextChain]_vars

----------------------------------------------------------------------------
(* The palette on its own *)

\* setColorScheme(scheme): currentColors is a new array of new colors, the
\* oscillators keep the colors they have
PaletteSetColorScheme ==
    /\ pal.n < MaxPaletteOps
    /\ \E scheme \in PaletteSchemes :
         pal' = [pal EXCEPT !.c = setColorScheme(pal.c, scheme), !.op = "setColorScheme",
                            !.colors = <<>>, !.n = @ + 1,
                            !.shared = [i \in 1..Len(pal.shared) |-> 0]]
    /\ UNCHANGED <<rendererVars, fb, pm, osc, clock, colorState, ctx, sh, mat, duo, reso, sp,
                   chain, tick, rst>>

\* new PointerManager(canvas, () => getRandomColor(), ...), once in a page
PalettePointerManager ==
    /\ pal.n < MaxPaletteOps
    /\ pal.fixedColors = <<>>
    /\ \E picks \in [1..NumOscillators -> PickIndices] :
         pal' = [pointerManagerColors(pal, picks) EXCEPT !.op = "pointerManager",
                                                         !.colors = <<>>, !.n = @ + 1]
    /\ UNCHANGED <<rendererVars, fb, pm, osc, clock, colorState, ctx, sh, mat, duo, reso, sp,
                   chain, tick, rst>>

\* one onSplatCallback of animate, for one of the oscillators
PaletteOscillatorSplat ==
    /\ pal.n < MaxPaletteOps
    /\ \E index \in 1..Len(pal.fixedColors) :
         pal' = [oscillatorColorSplat(pal, index) EXCEPT !.op = "handleSplat", !.n = @ + 1]
    /\ UNCHANGED <<rendererVars, fb, pm, osc, clock, colorState, ctx, sh, mat, duo, reso, sp,
                   chain, tick, rst>>

PaletteMultipleSplats ==
    /\ pal.n < MaxPaletteOps
    /\ pal.m < MaxMultipleSplats
    /\ \E amount \in SplatAmounts :
         \E picks \in [1..amount -> PickIndices] :
            pal' = [multipleSplats([pal EXCEPT !.colors = <<>>], picks)
                    EXCEPT !.op = "multipleSplats", !.n = @ + 1, !.m = @ + 1]
    /\ UNCHANGED <<rendererVars, fb, pm, osc, clock, colorState, ctx, sh, mat, duo, reso, sp,
                   chain, tick, rst>>

NextPalette ==
    \/ PaletteSetColorScheme
    \/ PalettePointerManager
    \/ PaletteOscillatorSplat
    \/ PaletteMultipleSplats

SpecPalette == Init /\ [][NextPalette]_vars

----------------------------------------------------------------------------
(* The animate callback of pointerManager.ts with the oscillators anywhere *)

\* a PointerManager whose oscillators are at the given positions
TickSetup ==
    /\ tick.oscillators = <<>>
    /\ \E states \in [1..NumOscillators -> OscillatorStates] :
         tick' = [started |-> TRUE,
                  oscillators |-> [i \in 1..NumOscillators |->
                                      oscillatorAt(i - 1, NumOscillators, states[i])],
                  pointers |-> [i \in 1..NumOscillators |-> createOscillatorPointer("c1")],
                  fixedColors |-> [i \in 1..NumOscillators |-> "c1"],
                  ticks |-> 0, splats |-> <<>>, previous |-> <<>>]
    /\ UNCHANGED <<rendererVars, fb, pm, osc, clock, colorState, ctx, sh, mat, duo, reso, sp,
                   chain, pal, rst>>

\* the animate callback, `elapsed` milliseconds after the one before
TickAnimate ==
    /\ tick.started
    /\ tick.ticks < MaxTicks
    /\ \E elapsed \in ElapsedMs :
         tick' = oscAnimate(tick, deltaTime(elapsed), canvas[1], canvas[2])
    /\ UNCHANGED <<rendererVars, fb, pm, osc, clock, colorState, ctx, sh, mat, duo, reso, sp,
                   chain, pal, rst>>

NextTick ==
    \/ TickSetup
    \/ TickAnimate

SpecTick == Init /\ [][NextTick]_vars

----------------------------------------------------------------------------
(* DuffingOscillator.ts on its own: the constructor, update and reset *)

ResetConstruct ==
    /\ rst.o = <<>>
    /\ \E total \in OscillatorTotals : \E index \in 0..(total - 1) :
         rst' = [o |-> newDuffingOscillator(index, total), op |-> "new", n |-> 0, updates |-> 0]
    /\ UNCHANGED <<rendererVars, fb, pm, osc, clock, colorState, ctx, sh, mat, duo, reso, sp,
                   chain, pal, tick>>

ResetUpdate ==
    /\ rst.o # <<>>
    /\ rst.n < MaxResetOps
    /\ \E elapsed \in ElapsedMs :
         rst' = [rst EXCEPT !.o = oscillatorUpdate(rst.o, deltaTime(elapsed)), !.op = "update",
                            !.n = @ + 1, !.updates = @ + 1]
    /\ UNCHANGED <<rendererVars, fb, pm, osc, clock, colorState, ctx, sh, mat, duo, reso, sp,
                   chain, pal, tick>>

ResetReset ==
    /\ rst.o # <<>>
    /\ rst.n < MaxResetOps
    /\ rst' = [rst EXCEPT !.o = oscillatorReset(rst.o), !.op = "reset", !.n = @ + 1]
    /\ UNCHANGED <<rendererVars, fb, pm, osc, clock, colorState, ctx, sh, mat, duo, reso, sp,
                   chain, pal, tick>>

NextReset ==
    \/ ResetConstruct
    \/ ResetUpdate
    \/ ResetReset

SpecReset == Init /\ [][NextReset]_vars

----------------------------------------------------------------------------
(* Properties.  world.log is the list of events of the handler that ran last. *)

IsPass(i) == world.log[i].kind = "pass"

\* the swap() of the buffer whose write side pass i wrote is the very next event
FollowedBySwap(i) ==
    /\ i < Len(world.log)
    /\ world.log[i + 1].kind = "swap"
    /\ world.log[i + 1].buf = WriteSide(world.log[i])

Dims(t) == <<world.heap[t].width, world.heap[t].height>>

\* C1: no pass renders into a target that it samples in the same pass.
C1_NoPassSamplesItsTarget ==
    \A i \in 1..Len(world.log) :
        IsPass(i) => world.log[i].write \notin world.log[i].reads

\* an update tick that resized the double buffers and ran the bloom chain
C1_Witness ==
    /\ lastOp = "update"
    /\ \E i \in 1..Len(world.log) : IsPass(i) /\ world.log[i].name = "copy"
    /\ \E i \in 1..Len(world.log) : IsPass(i) /\ world.log[i].name = "bloomFinal"
    /\ \E i \in 1..Len(world.log) : IsPass(i) /\ world.log[i].name = "advection"

\* C2 as stated: every pass that writes the write side of a double buffer,
\* post-processing included, is followed at once by swap() of that buffer.
C2_EveryWriteIsSwapped ==
    \A i \in 1..Len(world.log) :
        (IsPass(i) /\ WriteSide(world.log[i]) # "none") => FollowedBySwap(i)

\* C2: every solver and splat pass that writes the write side of a double
\* buffer is followed at once by swap() of that buffer; the one other pass
\* that writes a write side is the sunrays mask pass of render, which uses
\* dye.write as a scratch target: the sunrays pass samples it next and no
\* swap follows.
C2_SolverWritesAreSwapped ==
    \A i \in 1..Len(world.log) :
        (IsPass(i) /\ WriteSide(world.log[i]) # "none") =>
            IF world.log[i].name = "sunraysMask"
            THEN /\ world.log[i].stage = "render"
                 /\ WriteSide(world.log[i]) = "dye"
                 /\ i < Len(world.log)
                 /\ IsPass(i + 1)
                 /\ world.log[i + 1].name = "sunrays"
                 /\ world.log[i + 1].reads = {world.log[i].write}
            ELSE /\ world.log[i].stage \in {"step", "splat"}
                 /\ FollowedBySwap(i)

\* an update tick: the solver's swapped writes and the sunrays mask pass
C2_Witness ==
    /\ lastOp = "update"
    /\ \E i \in 1..Len(world.log) : IsPass(i) /\ world.log[i].name = "sunraysMask"
    /\ \E i \in 1..Len(world.log) :
         IsPass(i) /\ world.log[i].name = "vorticity" /\ FollowedBySwap(i)

\* C3: on a buffer as createDoubleFBO returned it, swap() leaves width,
\* height and texelSize alone and exchanges read and write; two swaps in a
\* row restore both.
C3_SwapExchanges ==
    LET n == Len(fb.ops)
    IN (n >= 2 /\ fb.ops[n] = "swap" /\ \A k \in 1..n : fb.ops[k] # "resize") =>
          /\ fb.snaps[n].width = fb.snaps[n - 1].width
          /\ fb.snaps[n].height = fb.snaps[n - 1].height
          /\ fb.snaps[n].texelSizeX = fb.snaps[n - 1].texelSizeX
          /\ fb.snaps[n].texelSizeY = fb.snaps[n - 1].texelSizeY
          /\ fb.snaps[n].read = fb.snaps[n - 1].write
          /\ fb.snaps[n].write = fb.snaps[n - 1].read
          /\ fb.snaps[n].read # fb.snaps[n - 1].read
          /\ (fb.ops[n - 1] = "swap" =>
                 /\ fb.snaps[n].read = fb.snaps[n - 2].read
                 /\ fb.snaps[n].write = fb.snaps[n - 2].write)

\* createDoubleFBO followed by two swaps
C3_Witness ==
    /\ fb.ops = <<"create", "swap", "swap">>
    /\ fb.snaps[3].read = fb.snaps[1].read
    /\ fb.snaps[2].read = fb.snaps[1].write

\* C4: after any sequence of createDoubleFBO, swap() and resizeDoubleFBO the
\* read side and the write side of a double buffer are different targets.
C4_ReadIsNotWrite ==
    \A k \in 1..Len(fb.snaps) : fb.snaps[k].read # fb.snaps[k].write

\* a resize that changed the size, and a swap after it
C4_Witness ==
    \E i \in 2..Len(fb.ops) : \E j \in (i + 1)..Len(fb.ops) :
        /\ fb.ops[i] = "resize"
        /\ fb.snaps[i].width # fb.snaps[i - 1].width
        /\ fb.ops[j] = "swap"

\* C5 as stated: both sides of a double buffer have the buffer's width and
\* height, after a swap() that follows a resize as well.
C5_SidesHaveBufferSize ==
    \A b \in {"dye", "velocity", "pressure"} :
        world[b] # Undefined =>
            /\ Dims(world[b].read) = <<world[b].width, world[b].height>>
            /\ Dims(world[b].write) = <<world[b].width, world[b].height>>

\* the passes of the simulation grid: their targets are velocity, pressure,
\* divergence and curl
SimGridPass(ev) ==
    /\ ev.kind = "pass"
    /\ \/ ev.name \in {"curl", "vorticity", "divergence", "clear", "pressure", "gradientSubtract"}
       \/ ev.name \in {"advection", "splat"} /\ ev.wrole = "velocity.write"

\* the stages of step as the ticks issue them: a pass with the roles of the
\* targets it samples and writes, or the swap of a buffer
StageOf(ev) ==
    [name |-> ev.name, rroles |-> ev.rroles, wrole |-> ev.wrole, buf |-> ev.buf]

PassStage(name, rroles, wrole) ==
    [name |-> name, rroles |-> rroles, wrole |-> wrole, buf |-> "none"]

SwapStage(b) == [name |-> "swap", rroles |-> {}, wrole |-> "none", buf |-> b]

IsStepEvent(ev) == ev.stage = "step" /\ ev.kind \in {"pass", "swap"}

StepStages == LET stages == SelectSeq(world.log, IsStepEvent)
              IN [i \in 1..Len(stages) |-> StageOf(stages[i])]

RECURSIVE JacobiStages(_)
JacobiStages(n) ==
    IF n = 0 THEN <<>>
    ELSE <<PassStage("pressure", {"divergence", "pressure.read"}, "pressure.write"),
           SwapStage("pressure")>> \o JacobiStages(n - 1)

\* C6: one step issues curl, vorticity, divergence, the pressure clear, the
\* Jacobi iterations, gradient subtraction, velocity advection and dye
\* advection in this order, each on the sides named, with the swaps between.
C6_StepOrder ==
    lastOp \in {"constructor", "update"} =>
        StepStages =
            <<PassStage("curl", {"velocity.read"}, "curl"),
              PassStage("vorticity", {"velocity.read", "curl"}, "velocity.write"),
              SwapStage("velocity"),
              PassStage("divergence", {"velocity.read"}, "divergence"),
              PassStage("clear", {"pressure.read"}, "pressure.write"),
              SwapStage("pressure")>>
            \o JacobiStages(config.PRESSURE_ITERATIONS)
            \o <<PassStage("gradientSubtract", {"pressure.read", "velocity.read"}, "velocity.write"),
                 SwapStage("velocity"),
                 PassStage("advection", {"velocity.read"}, "velocity.write"),
                 SwapStage("velocity"),
                 PassStage("advection", {"velocity.read", "dye.read"}, "dye.write"),
                 SwapStage("dye")>>

\* an update tick with at least one Jacobi iteration configured
C6_Witness ==
    /\ lastOp = "update"
    /\ config.PRESSURE_ITERATIONS >= 1
    /\ Len(StepStages) = 12 + 2 * config.PRESSURE_ITERATIONS

IsPressureWrite(ev) == ev.kind = "pass" /\ ev.stage = "step" /\ ev.name \in {"clear", "pressure"}

\* C7: a step runs exactly PRESSURE_ITERATIONS Jacobi passes, each from
\* pressure.read into pressure.write with a swap after it, and gradient
\* subtraction samples the pressure target written last: by the last Jacobi
\* pass, or by the clear pass when there are no iterations.
C7_JacobiPasses ==
    lastOp \in {"constructor", "update"} =>
        /\ Cardinality({i \in 1..Len(world.log) : IsPass(i) /\ world.log[i].name = "pressure"})
               = config.PRESSURE_ITERATIONS
        /\ \A i \in 1..Len(world.log) :
               (IsPass(i) /\ world.log[i].name = "pressure") =>
                   /\ "pressure.read" \in world.log[i].rroles
                   /\ world.log[i].wrole = "pressure.write"
                   /\ FollowedBySwap(i)
        /\ \E g \in 1..Len(world.log) :
               /\ IsPass(g) /\ world.log[g].name = "gradientSubtract"
               /\ \E p \in 1..(g - 1) :
                      /\ IsPressureWrite(world.log[p])
                      /\ \A q \in (p + 1)..(g - 1) : ~IsPressureWrite(world.log[q])
                      /\ world.log[p].write \in world.log[g].reads
                      /\ world.log[p].name =
                             (IF config.PRESSURE_ITERATIONS = 0 THEN "clear" ELSE "pressure")

\* an update tick with no Jacobi iterations: gradient subtraction follows the clear pass
C7_Witness ==
    /\ lastOp = "update"
    /\ config.PRESSURE_ITERATIONS = 0
    /\ \E g \in 1..Len(world.log) : IsPass(g) /\ world.log[g].name = "gradientSubtract"

\* C8 as stated: once destroy() has returned no update tick and no animation
\* tick of the pointer manager runs any more.
C8_NoTickAfterDestroy ==
    phase = "destroyed" => lastOp \notin {"update", "animate"}

\* C9 as stated: the targets bound together in one simulation-grid pass have
\* the same width and height, and a tick that detected a resize allocates
\* divergence, curl and pressure anew before a solver stage uses them.
C9_SimGridSameSize ==
    /\ \A i \in 1..Len(world.log) :
           SimGridPass(world.log[i]) =>
               \A t, u \in world.log[i].reads \cup {world.log[i].write} : Dims(t) = Dims(u)
    /\ \A r \in 1..Len(world.log) :
           world.log[r].kind = "resizeCanvas" =>
               \A j \in 1..Len(world.log) :
                   (IsPass(j) /\ world.log[j].name \in {"curl", "divergence", "clear"}) =>
                       \E k \in (r + 1)..(j - 1) :
                           world.log[k].kind = "alloc" /\ world.log[k].write = world.log[j].write

\* the first pass after event r that writes the write side of buffer b
FirstWriteAfter(r, b, j) ==
    /\ j > r
    /\ IsPass(j) /\ WriteSide(world.log[j]) = b
    /\ \A m \in (r + 1)..(j - 1) : ~(IsPass(m) /\ WriteSide(world.log[m]) = b)

\* C10 as stated: resizeDoubleFBO leaves the read side a resampled copy of
\* the old read side and the write side a fresh cleared target; the first
\* write pass after it samples that read side and renders into that write
\* side, and the swap after it makes the read side the target just written.
C10_ResizeThenWrite ==
    \A r \in 1..Len(world.log) :
        world.log[r].kind = "resize" =>
            /\ \E c \in 1..(r - 1) :
                   /\ IsPass(c) /\ world.log[c].name = "copy"
                   /\ world.log[c].reads = world.log[r].reads
                   /\ world.log[c].write = world.log[r].read
            /\ \E a \in 1..(r - 1) :
                   world.log[a].kind = "alloc" /\ world.log[a].write = world.log[r].write
            /\ \A m \in 1..r : IsPass(m) => world.log[m].write # world.log[r].write
            /\ \A j \in 1..Len(world.log) :
                   FirstWriteAfter(r, world.log[r].buf, j) =>
                       /\ world.log[r].read \in world.log[j].reads
                       /\ world.log[j].write = world.log[r].write
                       /\ FollowedBySwap(j)
                       /\ world.log[j + 1].read = world.log[j].write

\* call k of fb.ops is a resizeDoubleFBO that asks for the size the double
\* buffer has
SameSizeResize(k) ==
    /\ fb.ops[k] = "resize"
    /\ fb.calls[k].w = fb.snaps[k - 1].width
    /\ fb.calls[k].h = fb.snaps[k - 1].height

\* call k of fb.ops resized a single target, by resizeFBO, to the size that
\* target has
SameSizeResizeFBO(k) ==
    /\ fb.ops[k] = "resize"
    /\ fb.calls[k].arg # NoFBO
    /\ fb.calls[k].w = fb.s.heap[fb.calls[k].arg].width
    /\ fb.calls[k].h = fb.s.heap[fb.calls[k].arg].height

\* C11 as stated: resizing a single target or a double buffer to the size
\* it already has returns the same target / double buffer and allocates no
\* render target.
C11_SameSizeResizeIsNoOp ==
    \A k \in 2..Len(fb.ops) :
        /\ SameSizeResize(k) =>
               /\ fb.calls[k].allocated = 0
               /\ fb.snaps[k] = fb.snaps[k - 1]
        /\ SameSizeResizeFBO(k) =>
               /\ fb.calls[k].allocated = 0
               /\ fb.calls[k].ret = fb.calls[k].arg

\* the splats requested with the data of mousemove event m
SplatsOfMove(m) ==
    {i \in 1..Len(pm.splats) : pm.splats[i].move = m /\ pm.splats[i].at # "generateSplat"}

\* C12: one mousemove event causes at most one splat request, and a frame
\* that consumed a movement leaves the moved flag false.
C12_MoveSplatsAtMostOnce ==
    /\ \A m \in 1..pm.moves : Cardinality(SplatsOfMove(m)) <= 1
    /\ (pm.code # "none" /\ pm.splats # <<>> /\ pm.splats[Len(pm.splats)].at = "frame"
          /\ pm.splats[Len(pm.splats)].move = pm.moves) => ~pm.pointer.moved

\* C13: applyInputs requests a splat only for a pointer that is down at the
\* time of the frame and that moved since the frame before.
C13_FrameSplatsOnlyDownAndMoved ==
    \A i \in 1..Len(pm.splats) :
        pm.splats[i].at = "frame" =>
            /\ pm.splats[i].down
            /\ pm.splats[i].move >= 1
            /\ \A j \in 1..(i - 1) :
                  pm.splats[j].at = "frame" => pm.splats[j].move < pm.splats[i].move

\* C14: after every tick of the animate callback the splats requested in
\* it are one per oscillator, in index order; request i carries the fixed
\* color of index i, the position and the delta that oscillator i returned
\* from its update, and as previous position the position of request i of
\* the tick before.
C14_OneSplatPerOscillator ==
    osc.ticks >= 1 =>
        /\ Len(osc.splats) = NumOscillators
        /\ \A i \in 1..Len(osc.splats) :
             LET r == osc.splats[i]
                 out == oscillatorOutput(osc.oscillators[i])
             IN /\ r.index = i
                /\ r.color = osc.fixedColors[i]
                /\ r.texcoordX = Clamp01(out.x + Unit \div 2)
                /\ r.texcoordY = Clamp01(out.y + Unit \div 2)
                /\ r.deltaX = oscCorrectDeltaX(Trunc(out.dx, 2), canvas[1], canvas[2])
                /\ r.deltaY = oscCorrectDeltaY(Trunc(out.dy, 2), canvas[1], canvas[2])
                /\ r.prevTexcoordX = IF osc.ticks = 1 THEN Unit \div 2 ELSE osc.previous[i].texcoordX
                /\ r.prevTexcoordY = IF osc.ticks = 1 THEN Unit \div 2 ELSE osc.previous[i].texcoordY
                /\ osc.oscillators[i].index = i - 1

\* two ticks with time passing between them: the oscillators are at
\* different positions and have moved
C14_Witness ==
    /\ osc.ticks >= 2
    /\ Len(osc.splats) = NumOscillators
    /\ osc.splats[1].texcoordX # osc.splats[2].texcoordX
    /\ osc.splats[1].texcoordX # osc.previous[1].texcoordX
    /\ osc.splats[2].deltaY # 0
    /\ \E i, j \in 1..NumOscillators : osc.fixedColors[i] # osc.fixedColors[j]

\* C15: the dt that calcDeltaTime returns is at most 0.016666 s, and the
\* call leaves lastUpdateTime at the current time.
C15_DtIsCapped ==
    clock.last = "calcDeltaTime" =>
        /\ clock.dt <= MAX_DT
        /\ clock.lastUpdateTime = clock.now

\* a call 100 ms after the call before: dt is capped, lastUpdateTime moved
C15_Witness ==
    /\ clock.last = "calcDeltaTime"
    /\ clock.now = 116
    /\ clock.dt = MAX_DT
    /\ clock.lastUpdateTime = 116

\* the number of pending or running requests of callback id
Requests(id) ==
    Cardinality({i \in 1..Len(scheduled) : scheduled[i] = id})
    + Cardinality({i \in 1..Len(frameQueue) : frameQueue[i] = id})

\* the events of the last handler that satisfy Is, in order
EventsAt(Is(_)) == {i \in 1..Len(world.log) : Is(world.log[i])}

IsResizeEvent(ev) == ev.kind = "resizeCanvas"
IsInputEvent(ev) == ev.kind = "applyInputs"
IsRenderEvent(ev) == ev.stage = "render"
IsNamed(ev, name) == ev.kind = "pass" /\ ev.name = name
IsCurl(ev) == IsNamed(ev, "curl")
IsDisplay(ev) == IsNamed(ev, "display")
IsAdvection(ev) == IsNamed(ev, "advection")

\* C16: every update tick makes the resize check (and initFramebuffers
\* when the canvas changed), then applyInputs once, then one step, then one
\* render, and requests one next tick: while the renderer runs exactly one
\* update callback is pending or running, and none after destroy().
C16_TickIsWhole ==
    /\ Requests("update") = (IF phase = "running" THEN 1 ELSE 0)
    /\ lastOp = "update" =>
          /\ Cardinality(EventsAt(IsResizeEvent)) <= 1
          /\ Cardinality(EventsAt(IsInputEvent)) = 1
          /\ Cardinality(EventsAt(IsCurl)) = 1
          /\ Cardinality(EventsAt(IsAdvection)) = 2
          /\ Cardinality(EventsAt(IsDisplay)) = 1
          /\ IsDisplay(world.log[Len(world.log)])
          /\ \A i \in EventsAt(IsResizeEvent) :
                /\ i = 1
                /\ world.log[2].kind = "alloc"
          /\ \A i \in EventsAt(IsInputEvent) :
                /\ \A j \in 1..(i - 1) :
                      world.log[j].stage \in {"update", "initFramebuffers"}
                /\ \A j \in EventsAt(IsStepEvent) \cup EventsAt(IsRenderEvent) : i < j
                /\ (i > 1) = (EventsAt(IsResizeEvent) # {})
          /\ \A i \in EventsAt(IsStepEvent) : \A j \in EventsAt(IsRenderEvent) : i < j
          /\ \A i \in 1..Len(world.log) :
                world.log[i].stage \in {"update", "initFramebuffers", "step", "render"}

\* an update tick that found the canvas resized and reallocated the targets
C16_Witness ==
    /\ lastOp = "update"
    /\ phase = "running"
    /\ EventsAt(IsResizeEvent) # {}
    /\ Requests("animate") = 1

IsBloomPass(ev) ==
    /\ ev.kind = "pass"
    /\ \/ ev.name \in {"bloomPrefilter", "bloomBlur", "bloomFinal"}
       \/ ev.wrole = "bloom"

\* C17 as stated: a render with BLOOM_ITERATIONS below 2 in the
\* configuration, or with a mip chain of fewer than 2 levels, issues no
\* bloom pass and writes nothing to the bloom target.
C17_NoBloomBelowTwoLevels ==
    (lastOp \in {"constructor", "update"}
       /\ (config.BLOOM_ITERATIONS < 2 \/ Len(world.bloomFramebuffers) < 2)) =>
        EventsAt(IsBloomPass) = {}

\* C18 as stated: setColorScheme with a name that is not a scheme of
\* colorConfigurations does not throw; it warns, and the current scheme is
\* 'default' with the default palette, whatever was current before.
C18_UnknownSchemeFallsBack ==
    (colorState.op = "setColorScheme" /\ colorState.scheme \notin DOMAIN colorConfigurations) =>
        /\ ~colorState.threw
        /\ colorState.warned
        /\ colorState.currentScheme = "default"
        /\ colorState.currentColors = gradientToRGB("default")

\* C19: updateConfig(partial) leaves every option of the partial with the
\* value given and every other option with the value it had, and when the
\* partial names a scheme of colorConfigurations that scheme is current,
\* with its palette, when updateConfig returns.
C19_UpdateConfigMerges ==
    colorState.op = "updateConfig" =>
        /\ \A k \in DOMAIN colorState.before :
              colorState.config[k] = IF HasKey(colorState.partial, k) THEN colorState.partial[k]
                                ELSE colorState.before[k]
        /\ DOMAIN colorState.config = DOMAIN colorState.before
        /\ (HasKey(colorState.partial, "COLOR_SCHEME")
              /\ colorState.partial.COLOR_SCHEME \in DOMAIN colorConfigurations) =>
                /\ ~colorState.threw
                /\ colorState.currentScheme = colorState.partial.COLOR_SCHEME
                /\ Len(colorState.currentColors) = Len(colorConfigurations[colorState.currentScheme])
                /\ \A i \in 1..Len(colorState.currentColors) :
                      colorState.currentColors[i] = HSLAtoRGB(colorConfigurations[colorState.currentScheme][i])

\* an updateConfig that changed the scheme and the iterations, after one
\* that named only the iterations
C19_Witness ==
    /\ colorState.op = "updateConfig"
    /\ colorState.partial = [BLOOM_ITERATIONS |-> 1, COLOR_SCHEME |-> "rosolane_to_helvetia"]
    /\ colorState.before = [BLOOM_ITERATIONS |-> 2, COLOR_SCHEME |-> "dusk"]
    /\ Len(colorState.currentColors) = 2

\* the formats getSupportedFormat may answer with when asked for `need`
Fallbacks(need) ==
    CASE need = "R16F" -> {"R16F", "RG16F", "RGBA16F"}
      [] need = "RG16F" -> {"RG16F", "RGBA16F"}
      [] OTHER -> {need}

\* the three conditions of the claim, read off the canvas's capability
ContextUnavailable(gl) == gl.api = "none"

HalfFloatMissing(gl) == gl.api = "webgl1" /\ ~gl.halfFloat

FormatUnsupported(gl) ==
    /\ gl.api # "none"
    /\ ~HalfFloatMissing(gl)
    /\ \E need \in (IF gl.api = "webgl2" THEN {"RGBA16F", "RG16F", "R16F"} ELSE {"RGBA"}) :
          Fallbacks(need) \cap gl.formats = {}

ConstructionMustFail ==
    /\ ctx.gl # UnknownGL
    /\ ContextUnavailable(ctx.gl) \/ HalfFloatMissing(ctx.gl) \/ FormatUnsupported(ctx.gl)

\* C20 (as stated): if the WebGL context is unavailable, the half-float
\* extension is missing or a required texture format is unsupported, the
\* constructor throws and nothing is done: no framebuffer of any kind is
\* created, and no renderer tick and no pointer tick is ever scheduled.
C20_FailureCreatesNoFramebuffer ==
    ConstructionMustFail =>
        /\ ctx.error # "none"
        /\ ctx.renderer = "null"
        /\ ctx.probes = 0
        /\ ctx.targets = 0
        /\ ctx.scheduled = <<>>
        /\ ctx.ticks = 0

\* C20 (amended): under the same three conditions the constructor throws, no
\* render target of the simulation is created (createFBO is never called), and
\* no renderer tick and no pointer tick is ever scheduled or run, however often
\* the component is mounted again; the framebuffers that exist are those of the
\* format tests, and only when the failure is an unsupported format.
C20_FailureCreatesNoRenderTarget ==
    ConstructionMustFail =>
        /\ ctx.error # "none"
        /\ ctx.renderer = "null"
        /\ ctx.targets = 0
        /\ ctx.scheduled = <<>>
        /\ ctx.ticks = 0
        /\ ctx.probes > 0 => FormatUnsupported(ctx.gl)

\* the component was mounted twice on a WebGL 2 canvas without a renderable
\* RGBA16F, and a frame has passed since
C20_Witness ==
    /\ ConstructionMustFail
    /\ FormatUnsupported(ctx.gl)
    /\ ctx.gl.api = "webgl2"
    /\ ctx.mounts = 2
    /\ ctx.frames > 0
    /\ ctx.probes > 0

\* the compile call that ran last was given a source that does not compile
CompiledBrokenSource ==
    /\ ~sh.gl.lost
    /\ \/ sh.op = "constructor" /\ sh.gl.broken # {}
       \/ sh.op = "shaderManager.compileShader" /\ sh.source \in sh.gl.broken

\* C21: a shader compile failure is not fatal: the compile function traces
\* the diagnostic, does not throw and returns a shader handle, so that the
\* constructor finishes and the frame loop runs.
C21_CompileFailureIsNotFatal ==
    CompiledBrokenSource =>
        /\ sh.threw = "none"
        /\ sh.returned # NoShader
        /\ sh.op = "constructor" =>
              /\ sh.running
              /\ Len(sh.shaders) = Len(ShaderSources)
              /\ sh.gl.broken \subseteq sh.traces
        /\ sh.op = "shaderManager.compileShader" => sh.source \in sh.traces

\* the set of the elements of a list
Range(q) == {q[i] : i \in 1..Len(q)}

\* setKeywords has run
KeywordsSet == mat.code # "none" /\ mat.n > 0

\* C22: Material.setKeywords caches programs by keyword set: after
\* setKeywords(K) the active program is built from the fragment source with one
\* '#define' line per keyword of K, a call builds at most one program and only
\* if no program with these defines existed, and two programs of the cache
\* never have the same defines.
C22_ProgramsAreCachedByKeywords ==
    KeywordsSet =>
        /\ mat.activeProgram # 0
        /\ Range(mat.programs[mat.activeProgram].defines) = Range(mat.keywords)
        /\ Len(mat.programs[mat.activeProgram].defines) = Len(mat.keywords)
        /\ Len(mat.programs) <= Len(mat.before.programs) + 1
        /\ (\E i \in 1..Len(mat.before.programs) :
               Range(mat.before.programs[i].defines) = Range(mat.keywords))
           => /\ mat.programs = mat.before.programs
              /\ mat.compiles = mat.before.compiles
              /\ mat.links = mat.before.links
        /\ \A i, j \in 1..Len(mat.programs) :
              i # j => Range(mat.programs[i].defines) # Range(mat.programs[j].defines)

\* what renderer o works with: its own fields, the mip chain its applyBloom
\* reads and the palette its splat colors are drawn from
ViewOf(snap, o) ==
    [own |-> snap.inst[o], bloomFramebuffers |-> snap.bloomFramebuffers,
     currentScheme |-> snap.currentScheme, currentColors |-> snap.currentColors]

\* C23: two renderers side by side do not interfere: an operation of one
\* renderer (constructor, initFramebuffers on a resize, updateConfig, destroy)
\* leaves what the other, running renderer works with as it was: its own
\* state, the bloom mip chain of its applyBloom and its palette.
C23_InstancesDoNotInterfere ==
    duo.who # "none" =>
        \A o \in Instances \ {duo.who} :
            duo.before.inst[o].phase = "running" =>
                ViewOf(Snapshot(duo), o) = ViewOf(duo.before, o)

\* Math.round(r * a) for the aspect ratio a = long / short of the last call
RoundedLongSide ==
    IF reso.W > reso.H THEN Round(reso.resolution * reso.W, reso.H)
    ELSE Round(reso.resolution * reso.H, reso.W)

\* C24: getResolution(r) on a drawing buffer with aspect ratio a >= 1 (longer
\* side / shorter side) returns (round(r * a), round(r)) when the buffer is
\* wider than tall and (round(r), round(r * a)) otherwise, (round(r), round(r))
\* on a square buffer: the larger value goes to the longer dimension.
C24_GetResolution ==
    reso.resolution # 0 =>
        /\ reso.W > reso.H =>
              reso.width = RoundedLongSide /\ reso.height = reso.resolution
        /\ reso.W <= reso.H =>
              reso.width = reso.resolution /\ reso.height = RoundedLongSide
        /\ reso.W = reso.H =>
              reso.width = reso.resolution /\ reso.height = reso.resolution
        /\ reso.W > reso.H => reso.width >= reso.height
        /\ reso.W < reso.H => reso.height >= reso.width

\* canvas.width / canvas.height of the renderer that is given splats
SplatAspect == Fraction(sp.size[1], sp.size[2])

\* C25: the radius handed to the splat pass is SPLAT_RADIUS / 100 when the
\* canvas's aspect ratio width / height is at most 1, and SPLAT_RADIUS / 100
\* times the aspect ratio when it is greater than 1.
C25_RadiusCorrection ==
    sp.n > 0 =>
        /\ sp.size[1] <= sp.size[2] =>
              sp.radius = Fraction(sp.SPLAT_RADIUS[1], 100 * sp.SPLAT_RADIUS[2])
        /\ sp.size[1] > sp.size[2] =>
              sp.radius = Fraction(sp.SPLAT_RADIUS[1] * SplatAspect[1],
                                   100 * sp.SPLAT_RADIUS[2] * SplatAspect[2])

\* a splat with a positive radius on a canvas that is wider than tall: the
\* radius of the pass is not the configured one
C25_Witness ==
    /\ sp.n > 0
    /\ sp.size[1] > sp.size[2]
    /\ sp.SPLAT_RADIUS[1] > 0
    /\ sp.radius # Fraction(sp.SPLAT_RADIUS[1], 100 * sp.SPLAT_RADIUS[2])

\* C26: applySplat with a configured radius <= 0 completes: the velocity pass
\* and its swap, the dye pass and its swap are made, and the radius handed to
\* the splat pass is a small positive number, never <= 0.
C26_NonPositiveRadiusIsClamped ==
    (sp.n > 0 /\ sp.SPLAT_RADIUS[1] <= 0) =>
        /\ Len(sp.s.log) = 4
        /\ sp.s.log[1].kind = "pass" /\ sp.s.log[1].name = "splat"
        /\ sp.s.log[2].kind = "swap" /\ sp.s.log[2].buf = "velocity"
        /\ sp.s.log[3].kind = "pass" /\ sp.s.log[3].name = "splat"
        /\ sp.s.log[4].kind = "swap" /\ sp.s.log[4].buf = "dye"
        /\ sp.radius[1] > 0

\* C27: initBloomFramebuffers on the base resolution (w, h) with n iterations
\* creates level i = 0, 1, ... of size (w >> (i + 1), h >> (i + 1)) and stops at
\* the first i that reaches n or whose width or height would be below 2: the
\* chain has at most n levels, every level is at least 2 x 2 and half the level
\* before it.
C27_MipChain ==
    chain.called =>
        LET L == Len(chain.levels)
        IN /\ L <= chain.iterations
           /\ \A k \in 1..L :
                 /\ chain.levels[k].width = ShiftRight(chain.width, k)
                 /\ chain.levels[k].height = ShiftRight(chain.height, k)
                 /\ chain.levels[k].width >= 2
                 /\ chain.levels[k].height >= 2
                 /\ k > 1 => /\ chain.levels[k].width = chain.levels[k - 1].width \div 2
                             /\ chain.levels[k].height = chain.levels[k - 1].height \div 2
           /\ \/ L = chain.iterations
              \/ ShiftRight(chain.width, L + 1) < 2
              \/ ShiftRight(chain.height, L + 1) < 2

\* a chain of two levels that stopped before the iteration count because the
\* next level would be lower than 2
C27_Witness ==
    /\ chain.called
    /\ Len(chain.levels) = 2
    /\ chain.iterations = 3
    /\ ShiftRight(chain.height, 3) < 2
    /\ ShiftRight(chain.width, 3) >= 2

\* C28: the cached palette is changed by setColorScheme only: whatever splats
\* were made, every entry of the palette has the value it was given when the
\* scheme was selected, with all channels in [0, 1].
C28_PaletteIsOnlySetByScheme ==
    pal.c.currentColors # <<>> =>
        /\ pal.c.currentColors = gradientToRGB(pal.c.currentScheme)
        /\ \A k \in 1..Len(pal.c.currentColors) :
              /\ pal.c.currentColors[k].r \in 0..Unit
              /\ pal.c.currentColors[k].g \in 0..Unit
              /\ pal.c.currentColors[k].b \in 0..Unit

\* C29: every splat request of the animate callback has texcoordX and
\* texcoordY in [0, 1], wherever the oscillator is, and its prevTexcoord is
\* the texcoord of the request of the same oscillator in the tick before,
\* (0.5, 0.5) in the first tick.
C29_TexcoordInUnitSquare ==
    \A i \in 1..Len(tick.splats) :
        /\ tick.splats[i].texcoordX \in 0..Unit
        /\ tick.splats[i].texcoordY \in 0..Unit
        /\ tick.splats[i].prevTexcoordX =
               IF tick.ticks = 1 THEN Unit \div 2 ELSE tick.previous[i].texcoordX
        /\ tick.splats[i].prevTexcoordY =
               IF tick.ticks = 1 THEN Unit \div 2 ELSE tick.previous[i].texcoordY

\* the second tick of an oscillator beyond the right edge and of one beyond
\* the left edge: the requests are on the edges
C29_Witness ==
    /\ tick.ticks >= 2
    /\ \E i, j \in 1..Len(tick.splats) :
          /\ oscillatorOutput(tick.oscillators[i]).x + Unit \div 2 > Unit
          /\ tick.splats[i].texcoordX = Unit
          /\ tick.splats[i].prevTexcoordX = Unit
          /\ oscillatorOutput(tick.oscillators[j]).x + Unit \div 2 < 0
          /\ tick.splats[j].texcoordX = 0
          /\ tick.splats[j].texcoordY \notin {0, Unit}
          /\ tick.splats[j].texcoordY # tick.splats[j].prevTexcoordY

\* C30: after reset(), whatever updates came before, the oscillator is in
\* the state of a freshly constructed oscillator of the same index and
\* total: position, velocity, time and the home position (baseX, baseY) on
\* the circle of the construction radius.
C30_ResetReturnsToInitialState ==
    rst.op = "reset" =>
        rst.o = newDuffingOscillator(rst.o.index, rst.o.totalOscillators)

====
